---- MODULE Spec2Model ----
(***************************************************************************)
(* Transport and session core of StumpfWORKS Nexus (src-tauri/src):        *)
(*   terminal/manager.rs   TerminalSession, TerminalManager, multiplexer   *)
(*   terminal/commands.rs  the terminal commands (take / operate / put)    *)
(*   ssh/commands.rs       the ssh commands over the client registry       *)
(*   ssh/client.rs         SshClient                                       *)
(*                                                                         *)
(* The specifications share the state and the method-level actions:        *)
(*   Spec         concurrent commands against both registries              *)
(*   SessionSpec  one caller driving the methods of one TerminalSession    *)
(*   ClientSpec   one caller driving the methods of one SshClient          *)
(*   FairSpec, FairSessionSpec  the first two under fair scheduling        *)
(***************************************************************************)
EXTENDS Naturals, Integers, Sequences, FiniteSets, TLC

(* ------------------------------ bounds --------------------------------- *)

\* concurrent command invocations (tauri runs every command as its own task)
NumProcs == 2
\* session ids / client ids the callers use
NumIds == 2
\* commands started in one behaviour of Spec
MaxCmds == 3
\* commands started in one behaviour of FairSpec
MaxFairCmds == 2
\* method calls made in one behaviour of SessionSpec
MaxCalls == 3
\* connections (transport handle + shell channel) opened in one behaviour
MaxConns == 2
\* messages the remote sends in one behaviour of SessionSpec (under Spec the
\* remote only closes channels)
MaxRemote == 2
\* capacity of the input queue, mpsc::channel(100) scaled down
InputCap == 1
\* capacity of the resize queue, mpsc::channel(10) scaled down
ResizeCap == 1
\* messages one execute reads before the Eof or the close of its channel
MaxExecMsgs == 2

\* Option::None of a struct-valued option, and of a handle-valued one
None == [none |-> TRUE]
NoHandle == 0

Procs == 1..NumProcs
\* the caller of SessionSpec, which owns its TerminalSession directly
Caller == NumProcs + 1
AllProcs == Procs \cup {Caller}
Ids == 1..NumIds
Conns == 1..MaxConns

\* (cols, rows) of TerminalSession::new and the geometries resize is called with
DefaultGeom == <<80, 24>>
Geoms == {<<100, 30>>}

\* byte payloads; "x" stands for bytes that are not valid UTF-8
Payloads == {"a", "x"}

FromUtf8Lossy(b) == IF b = "x" THEN "?" ELSE b

VARIABLES
    sessions,   \* TerminalManager.sessions: id -> TerminalSession or None
    lock,       \* TERMINAL_MANAGER's RwLock: [w: holder or 0, r: set of holders]
    clients,    \* SSH_CLIENTS map: id -> SshClient or None
    clock,      \* SSH_CLIENTS's RwLock
    pc,         \* position of each command invocation
    cmd,        \* the command a process runs (or ran last)
    arg,        \* its session_id argument
    held,       \* the detached `session` / `client` local of the command
    tmp,        \* connect's locals between spawn and return: the new handle
    result,     \* what the command returned last
    left,       \* commands / calls the behaviour may still start
    prev,       \* SessionSpec: the method the caller called before this one
    attempt,    \* what the network and the server did at the command's last connect
    xch,        \* execute's locals: exit_code, stdout, stderr, the ExitStatus values received
    used,       \* <<registry, id>> pairs that Uuid::new_v4 or a caller has used
    ds,         \* DataSphereCrypto instances, the last EncryptedData and its decryption
    mcp,        \* an McpServer with its requests, and a PermissionManager with its calls
    transport,  \* per connection: "none" | "up" | "stalled" | "down"
    task,       \* per connection: multiplexer task "none" | "run" | "end"
    inputQ,     \* per connection: the input mpsc queue
    resizeQ,    \* per connection: the resize mpsc queue
    chanIn,     \* per connection: remote messages not yet read by wait()
    closed,     \* per connection: wait() returns None once chanIn is drained
    enq,        \* per connection: items enqueued so far (stamps input and resize)
    nsent,      \* messages the remote has sent (stamps them)
    wire,       \* per connection: what was written to the remote, in order
    events      \* per connection: events emitted to the frontend, in order

regVars  == <<sessions, lock, clients, clock>>
procVars == <<pc, cmd, arg, held, tmp, result, left, prev, attempt, xch, used, ds, mcp>>
connVars == <<transport, task, inputQ, resizeQ, chanIn, closed, enq, nsent, wire, events>>
vars == <<sessions, lock, clients, clock, pc, cmd, arg, held, tmp, result, left,
          prev, attempt, xch, used, ds, mcp, transport, task, inputQ, resizeQ, chanIn, closed, enq, nsent,
          wire, events>>

(* ------------------- datasphere::crypto (pure part) -------------------- *)

\* lengths in bytes: the raw key, the ChaCha20-Poly1305 nonce and tag, the salt
KeyLen == 32
NonceLen == 12
TagLen == 16
SaltLen == 16
\* longest plaintext of the model
MaxPlain == 2

Bytes == 0..255
Const(n, b) == [i \in 1..n |-> b]

RECURSIVE SumSeq(_)
SumSeq(s) == IF s = <<>> THEN 0 ELSE s[1] + SumSeq(Tail(s))

\* base64 STANDARD: a text is a sequence of sextets 0..63, Pad stands for '='
Pad == 64
ByteAt(b, i) == IF i <= Len(b) THEN b[i] ELSE 0
\* the j-th character (1..4) of the group that starts at byte g
B64Char(b, g, j) ==
    LET v == ByteAt(b, g) * 65536 + ByteAt(b, g + 1) * 256 + ByteAt(b, g + 2)
    IN  CASE j = 1 -> v \div 262144
          [] j = 2 -> (v \div 4096) % 64
          [] j = 3 -> IF g + 1 > Len(b) THEN Pad ELSE (v \div 64) % 64
          [] j = 4 -> IF g + 2 > Len(b) THEN Pad ELSE v % 64
\* BASE64.encode
B64Encode(b) ==
    [k \in 1..(4 * ((Len(b) + 2) \div 3)) |->
        B64Char(b, 3 * ((k - 1) \div 4) + 1, ((k - 1) % 4) + 1)]

\* number of pad characters at the end of a text
PadCount(s) ==
    IF Len(s) >= 2 /\ s[Len(s)] = Pad /\ s[Len(s) - 1] = Pad THEN 2
    ELSE IF Len(s) >= 1 /\ s[Len(s)] = Pad THEN 1 ELSE 0
Sextet(s, k) == IF s[k] = Pad THEN 0 ELSE s[k]
\* the value of the group of four characters that starts at k
B64Group(s, k) ==
    Sextet(s, k) * 262144 + Sextet(s, k + 1) * 4096 + Sextet(s, k + 2) * 64
      + Sextet(s, k + 3)
\* BASE64.decode: padding required and only at the end, no stray bits
B64Decode(s) ==
    LET n == Len(s)
        pads == PadCount(s)
        outLen == 3 * (n \div 4) - pads
        bytes == [i \in 1..outLen |->
                    LET v == B64Group(s, 4 * ((i - 1) \div 3) + 1)
                    IN  CASE (i - 1) % 3 = 0 -> v \div 65536
                          [] (i - 1) % 3 = 1 -> (v \div 256) % 256
                          [] OTHER -> v % 256]
    IN  IF \/ n % 4 # 0
           \/ \E k \in 1..(n - pads) : s[k] = Pad
           \/ pads = 1 /\ B64Group(s, n - 3) % 256 # 0
           \/ pads = 2 /\ B64Group(s, n - 3) % 65536 # 0
        THEN [ok |-> FALSE]
        ELSE [ok |-> TRUE, val |-> bytes]

\* the keystream byte of ChaCha20 at position i: a function of key, nonce and
\* position
KeyStream(key, nonce, i) ==
    (key[((i - 1) % KeyLen) + 1] + nonce[((i - 1) % NonceLen) + 1] + 7 * i) % 256
\* the Poly1305 tag: a function of key, nonce and ciphertext
Tag(key, nonce, ct) ==
    [j \in 1..TagLen |-> (SumSeq(key) + 3 * SumSeq(nonce) + 5 * SumSeq(ct)
                            + 11 * Len(ct) + j) % 256]
\* Aead::encrypt: ciphertext followed by the tag
cipher_encrypt(key, nonce, plaintext) ==
    LET ct == [i \in 1..Len(plaintext) |->
                 (plaintext[i] + KeyStream(key, nonce, i)) % 256]
    IN  ct \o Tag(key, nonce, ct)
\* Aead::decrypt: fails on a short buffer or a tag that does not verify
cipher_decrypt(key, nonce, buf) ==
    IF Len(buf) < TagLen THEN [ok |-> FALSE]
    ELSE LET ct == SubSeq(buf, 1, Len(buf) - TagLen)
             tag == SubSeq(buf, Len(buf) - TagLen + 1, Len(buf))
         IN  IF tag # Tag(key, nonce, ct) THEN [ok |-> FALSE]
             ELSE [ok |-> TRUE,
                   val |-> [i \in 1..Len(ct) |->
                              (ct[i] + 256 - KeyStream(key, nonce, i)) % 256]]

\* SaltString::encode_b64 and Argon2 accept a salt of 8 to 48 bytes
SaltAccepted(salt) == Len(salt) >= 8 /\ Len(salt) <= 48
\* DataSphereCrypto::derive_key: Argon2id of password and salt, 32 bytes out
derive_key(password, salt) ==
    IF ~SaltAccepted(salt) THEN [ok |-> FALSE]
    ELSE [ok |-> TRUE,
          val |-> [i \in 1..KeyLen |->
                     (7 * SumSeq(password) + 13 * SumSeq(salt)
                        + 3 * Len(password) + i * i) % 256]]

\* DataSphereCrypto::from_key
from_key(key) == [ok |-> TRUE, val |-> [cipher |-> key]]
\* DataSphereCrypto::from_password
from_password(password, salt) ==
    LET key == derive_key(password, salt)
    IN  IF key.ok THEN [ok |-> TRUE, val |-> [cipher |-> key.val]]
        ELSE [ok |-> FALSE]

\* DataSphereCrypto::encrypt with the nonce that generate_nonce drew
encrypt(crypto, plaintext, nonce) ==
    [ciphertext |-> B64Encode(cipher_encrypt(crypto.cipher, nonce, plaintext)),
     nonce |-> B64Encode(nonce),
     salt |-> None,
     version |-> 1]

\* mutant: decrypt under an all-zero nonce instead of the stored one
decrypt_zero_nonce(crypto, encrypted) ==
    LET ciphertext == B64Decode(encrypted.ciphertext)
    IN  IF ~ciphertext.ok THEN [ok |-> FALSE]
        ELSE cipher_decrypt(crypto.cipher, Const(NonceLen, 0), ciphertext.val)

\* DataSphereCrypto::decrypt
decrypt(crypto, encrypted) ==
    LET ciphertext == B64Decode(encrypted.ciphertext)
        nonce_bytes == B64Decode(encrypted.nonce)
    IN  IF ~ciphertext.ok \/ ~nonce_bytes.ok THEN [ok |-> FALSE]
        ELSE cipher_decrypt(crypto.cipher, nonce_bytes.val, ciphertext.val)

\* sample inputs: keys of generate_key, salts of generate_salt and one too
\* short, nonces of generate_nonce, passwords, plaintexts up to MaxPlain bytes
Keys == {Const(KeyLen, 1), Const(KeyLen, 200)}
Salts == {Const(SaltLen, 1), Const(SaltLen, 2), <<7, 7>>}
Nonces == {Const(NonceLen, 0), Const(NonceLen, 255), [i \in 1..NonceLen |-> 20 * i]}
Passwords == {<<112>>, <<112, 119>>}
PlainBytes == {0, 65, 255}
Plaintexts == UNION {[1..n -> PlainBytes] : n \in 0..MaxPlain}

\* no instance built, nothing encrypted
NoDs == [crypto |-> [c \in 1..2 |-> None], pt |-> <<>>, enc |-> None, dec |-> None]

\* what a command returns: an error or Ok code, and the value of an Ok
Ret(code) == [code |-> code, val |-> None]

(* ------------------------ mcp (pure part) ------------------------------ *)

\* process_request calls in a behaviour of McpSpec
MaxRequests == 3
\* grant / block calls in a behaviour of PermSpec
MaxPermCalls == 4

\* enum McpAbility and McpAbility::as_str
AllAbilities ==
    {"ServerList", "SshConnect", "SshExecute", "SshUpload", "SshDownload",
     "DatasphereGet", "DatasphereSet", "LogsStream", "AiInvoke"}

as_str(ability) ==
    CASE ability = "ServerList"    -> "nexus.server.list"
      [] ability = "SshConnect"    -> "nexus.ssh.connect"
      [] ability = "SshExecute"    -> "nexus.ssh.execute"
      [] ability = "SshUpload"     -> "nexus.ssh.upload"
      [] ability = "SshDownload"   -> "nexus.ssh.download"
      [] ability = "DatasphereGet" -> "nexus.datasphere.get"
      [] ability = "DatasphereSet" -> "nexus.datasphere.set"
      [] ability = "LogsStream"    -> "nexus.logs.stream"
      [] ability = "AiInvoke"      -> "nexus.ai.invoke"

\* the abilities the requests of the model ask for
Abilities == {"ServerList", "SshExecute", "DatasphereSet"}

\* enum AiProvider: <<variant, payload of Custom>>
Providers == {<<"Claude", "">>, <<"Custom", "A">>, <<"Custom", "a">>}

\* str::to_lowercase on the strings of the model
ToLowercase(s) ==
    CASE s = "Claude" -> "claude" [] s = "Custom" -> "custom" [] s = "A" -> "a"
      [] OTHER -> s

\* format!("{:?}", provider).to_lowercase()
provider_str(provider) == <<ToLowercase(provider[1]), ToLowercase(provider[2])>>

\* PermissionManager::default; provider_permissions is a map from provider_str
PermissionManagerDefault ==
    [auto_approve |-> {}, blocked |-> {}, provider_permissions |-> <<>>]

\* PermissionManager::check_permission
check_permission(pm, provider, ability) ==
    LET ability_str == as_str(ability)
        key == provider_str(provider)
    IN  IF ability_str \in pm.blocked THEN "Denied"
        ELSE IF ability_str \in pm.auto_approve THEN "Allowed"
        ELSE IF key \in DOMAIN pm.provider_permissions
        THEN LET perms == pm.provider_permissions[key] IN
             IF ability_str \in perms.allowed_abilities THEN "Allowed"
             ELSE IF ability_str \in perms.blocked_abilities THEN "Denied"
             ELSE "RequiresApproval"
        ELSE "RequiresApproval"

\* mutant: grant leaves the ability in blocked
grant_keeps_blocked(pm, ability) ==
    [pm EXCEPT !.auto_approve = @ \cup {as_str(ability)}]

\* PermissionManager::grant
grant(pm, ability) ==
    [pm EXCEPT !.auto_approve = @ \cup {as_str(ability)},
               !.blocked = @ \ {as_str(ability)}]

\* PermissionManager::block
block(pm, ability) ==
    [pm EXCEPT !.blocked = @ \cup {as_str(ability)},
               !.auto_approve = @ \ {as_str(ability)}]

\* McpConfig as far as process_request reads it
McpConfigs == [require_approval : BOOLEAN, allowed_providers : SUBSET Providers]

\* McpServer::new
McpServerNew(config) ==
    [config |-> config, permissions |-> PermissionManagerDefault,
     pending_approvals |-> <<>>, running |-> FALSE]

\* McpRequest: `complete` says whether params holds the key the handler reads
Requests == [provider : Providers, ability : Abilities, complete : BOOLEAN]

\* the handlers that fail with InvalidRequest when their key is missing
ReadsParam == {"SshExecute", "DatasphereGet", "DatasphereSet", "AiInvoke"}

\* McpServer::execute_ability: the handler's Err also becomes an Ok(McpResponse)
execute_ability(request) ==
    [code |-> "Ok",
     val |-> [success |-> (request.ability \in ReadsParam => request.complete)]]

\* ApprovalRequest::new; id is the Uuid::new_v4
ApprovalRequest(id, request) ==
    [id |-> id, provider |-> request.provider, ability |-> request.ability]

\* mutant: process_request without the test of allowed_providers
process_request_any_provider(server, request, id) ==
    LET permission ==
          check_permission(server.permissions, request.provider, request.ability)
    IN  IF permission = "Allowed"
           \/ (permission = "RequiresApproval" /\ ~server.config.require_approval)
        THEN [server |-> server, executed |-> <<request>>,
              ret |-> execute_ability(request)]
        ELSE IF permission = "Denied"
        THEN [server |-> server, executed |-> <<>>, ret |-> Ret("PermissionDenied")]
        ELSE [server |-> [server EXCEPT !.pending_approvals =
                                           Append(@, ApprovalRequest(id, request))],
              executed |-> <<>>, ret |-> Ret("PermissionDenied")]

\* McpServer::process_request: the server after the call, the request handed
\* to execute_ability (if any) and what the call returns
process_request(server, request, id) ==
    IF request.provider \notin server.config.allowed_providers
    THEN [server |-> server, executed |-> <<>>, ret |-> Ret("ProviderNotAllowed")]
    ELSE LET permission ==
               check_permission(server.permissions, request.provider, request.ability)
         IN  CASE permission = "Allowed" ->
                    [server |-> server, executed |-> <<request>>,
                     ret |-> execute_ability(request)]
               [] permission = "Denied" ->
                    [server |-> server, executed |-> <<>>,
                     ret |-> Ret("PermissionDenied")]
               [] permission = "RequiresApproval" ->
                    IF server.config.require_approval
                    THEN [server |-> [server EXCEPT !.pending_approvals =
                                         Append(@, ApprovalRequest(id, request))],
                          executed |-> <<>>, ret |-> Ret("PermissionDenied")]
                    ELSE [server |-> server, executed |-> <<request>>,
                          ret |-> execute_ability(request)]

\* pending_approvals.iter().position(|r| r.id == id): 0 when there is none
Position(pending, id) ==
    IF \E k \in DOMAIN pending : pending[k].id = id
    THEN CHOOSE k \in DOMAIN pending :
            /\ pending[k].id = id
            /\ \A j \in DOMAIN pending : pending[j].id = id => k <= j
    ELSE 0

\* VecDeque::remove(pos)
RemoveAt(q, pos) == [k \in 1..(Len(q) - 1) |-> IF k < pos THEN q[k] ELSE q[k + 1]]

\* McpServer::approve_request / deny_request; change is grant or block
Decide(server, id, remember, allow) ==
    LET pos == Position(server.pending_approvals, id) IN
    IF pos = 0 THEN [server |-> server, found |-> FALSE]
    ELSE LET request == server.pending_approvals[pos]
             taken == [server EXCEPT !.pending_approvals = RemoveAt(@, pos)]
         IN  [server |-> IF ~remember THEN taken
                         ELSE [taken EXCEPT !.permissions =
                                 IF allow THEN grant(@, request.ability)
                                 ELSE block(@, request.ability)],
              found |-> TRUE]

approve_request(server, id, remember) == Decide(server, id, remember, TRUE)
deny_request(server, id, remember) == Decide(server, id, remember, FALSE)

\* no server yet; a default PermissionManager with no call made on it
NoMcp ==
    [server |-> None, executed |-> <<>>, req |-> None, ret |-> Ret("none"),
     made |-> 0, nreq |-> 0,
     pm |-> PermissionManagerDefault, calls |-> <<>>, chk |-> None]

(* --------------------------- data model -------------------------------- *)

\* TerminalSession::new_with_id / new
NewSession(id) ==
    [id |-> id, cols |-> DefaultGeom[1], rows |-> DefaultGeom[2],
     ssh_client |-> None, input_tx |-> NoHandle, resize_tx |-> NoHandle]

\* SshClient with its connection handle (`session`): a handle number or NoHandle
NewClient(id, h) == [id |-> id, session |-> h]

\* SshClient::is_connected
is_connected(c) == c.session # NoHandle

\* TerminalSession::info
info(s) ==
    [id |-> s.id,
     connected |-> IF s.ssh_client = None THEN FALSE ELSE is_connected(s.ssh_client),
     cols |-> s.cols, rows |-> s.rows]

\* an Err whose payload is the message of the SshError it was mapped from
\* (map_err(|e| TerminalError::ConnectionFailed(e.to_string())))
RetCause(code, e) == [code |-> code, val |-> [cause |-> e]]

\* the outcome of one run of SshClient::connect is decided by what the network
\* does during the handshake, by the auth method of the config and by what the
\* server answers to the authentication request
NetOutcomes == {"ok", "error", "timeout"}
AuthMethods == {"password", "private_key", "agent"}
AuthOutcomes == {"accepted", "rejected", "error", "bad_key"}
NoAttempt == [net |-> "none", method |-> "none", auth |-> "none"]

\* one environment per path through SshClient::connect: the authentication is
\* not reached unless the handshake completes, the agent method asks the server
\* nothing, and only a private key can fail to load
ConnectEnvs ==
    {e \in [net : NetOutcomes, method : AuthMethods, auth : AuthOutcomes] :
       /\ e.net # "ok" => e.method = "password" /\ e.auth = "rejected"
       /\ e.method = "agent" => e.auth = "rejected"
       /\ e.auth = "bad_key" => e.method = "private_key"}

\* mutant: an elapsed timeout is reported as a failed connection
client_connect_no_timeout(e) ==
    IF e.net # "ok" THEN "ConnectionFailed"
    ELSE IF e.method = "agent" THEN "AuthenticationFailed"
    ELSE IF e.auth = "bad_key" THEN "KeyError"
    ELSE IF e.auth = "error" THEN "Russh"
    ELSE IF e.auth = "rejected" THEN "AuthenticationFailed"
    ELSE "Ok"

\* SshClient::connect (lines 206-266): "Ok" when the handle is stored, else
\* the SshError returned
client_connect(e) ==
    IF e.net = "timeout" THEN "Timeout"
    ELSE IF e.net = "error" THEN "ConnectionFailed"
    ELSE IF e.method = "agent" THEN "AuthenticationFailed"
    ELSE IF e.auth = "bad_key" THEN "KeyError"
    ELSE IF e.auth = "error" THEN "Russh"
    ELSE IF e.auth = "rejected" THEN "AuthenticationFailed"
    ELSE "Ok"

\* the handshake completed and the server never answers the authentication
\* request (the agent method sends none)
SilentEnvs ==
    {[net |-> "ok", method |-> m, auth |-> "silent"] : m \in {"password", "private_key"}}

OkEnvs == {e \in ConnectEnvs : client_connect(e) = "Ok"}
FailEnvs == ConnectEnvs \ OkEnvs

\* execute's locals before the loop (line 277: exit_code = 0), and no execute
NoExec ==
    [exit_code |-> 0, status |-> <<>>, n |-> 0, stdout |-> <<>>, stderr |-> <<>>,
     late |-> <<>>]

IsSession(x) == "input_tx" \in DOMAIN x
IsClient(x)  == "session" \in DOMAIN x

\* every TerminalSession object that exists: in the map or detached in a command
SessionObjects ==
    {sessions[i] : i \in {j \in Ids : sessions[j] # None}}
      \cup {held[p] : p \in {q \in AllProcs : IsSession(held[q])}}

\* the Sender halves alive for connection h (a Sender lives in a session field
\* or, between spawn and return of connect, in connect's local)
InputSenderAlive(h) ==
    \/ \E s \in SessionObjects : s.input_tx = h
    \/ \E p \in AllProcs : tmp[p] = h
ResizeSenderAlive(h) ==
    \/ \E s \in SessionObjects : s.resize_tx = h
    \/ \E p \in AllProcs : tmp[p] = h

(* ------------------------------ RwLock --------------------------------- *)

FreeLock == [w |-> 0, r |-> {}]
CanRead(l)  == l.w = 0
CanWrite(l) == l.w = 0 /\ l.r = {}
LockRead(l, p)  == [l EXCEPT !.r = @ \cup {p}]
LockWrite(l, p) == [l EXCEPT !.w = p]
\* mutant: the guard is kept alive across the await that follows
UnlockKept(l, p) == l

\* the guard is a temporary of the statement: dropped when the statement ends
Unlock(l, p) == [w |-> IF l.w = p THEN 0 ELSE l.w, r |-> l.r \ {p}]
Holds(l, p) == l.w = p \/ p \in l.r

(* ------------------- TerminalSession operations ------------------------ *)

\* the TerminalSession method a command (or the caller of SessionSpec) runs
OpKind(p) ==
    CASE cmd[p] \in {"connect_terminal", "connect"}  -> "connect"
      [] cmd[p] \in {"write_terminal", "write"}      -> "write"
      [] cmd[p] \in {"resize_terminal", "resize"}    -> "resize"
      [] cmd[p] \in {"close_terminal", "disconnect"} -> "disconnect"
      [] OTHER -> "none"

\* mutant: close_terminal puts the session back like the other commands
AfterOpPutsBack(p) == IF p = Caller THEN "api" ELSE "put_lock"

\* where the command continues when the method has returned: the put-back of
\* connect / write / resize, the return of close_terminal
AfterOp(p) ==
    IF p = Caller THEN "api"
    ELSE IF cmd[p] = "close_terminal" THEN "idle" ELSE "put_lock"

\* the local `session` of close_terminal is dropped when it returns
HeldAfterOp(p, s) ==
    IF p # Caller /\ cmd[p] = "close_terminal" THEN None ELSE s

FreshConns == {h \in Conns : transport[h] = "none"}
NextConn == CHOOSE h \in FreshConns : \A k \in FreshConns : h <= k

Append1(f, h, x) == [f EXCEPT ![h] = Append(@, x)]

\* TerminalSession::connect up to and including tokio::spawn (lines 73-141)
SessConnectSpawn(p) ==
    /\ pc[p] = "op" /\ OpKind(p) = "connect"
    /\ \/ \* client.connect() fails: no handle was stored, the session is as before
          /\ \E e \in FailEnvs :
               /\ attempt' = [attempt EXCEPT ![p] = e]
               /\ result' = [result EXCEPT ![p] =
                               RetCause("ConnectionFailed", client_connect(e))]
          /\ pc' = [pc EXCEPT ![p] = AfterOp(p)]
          /\ UNCHANGED <<held, tmp, connVars>>
       \/ \* connected, open_shell fails: `client` is dropped while still connected
          /\ FreshConns # {}
          /\ \E e \in OkEnvs : attempt' = [attempt EXCEPT ![p] = e]
          /\ transport' = [transport EXCEPT ![NextConn] = "up"]
          /\ pc' = [pc EXCEPT ![p] = AfterOp(p)]
          /\ result' = [result EXCEPT ![p] = Ret("Ssh")]
          /\ UNCHANGED <<held, tmp, task, inputQ, resizeQ, chanIn, closed, enq,
                         nsent, wire, events>>
       \/ \* connected, shell open, queues used, task spawned
          /\ FreshConns # {}
          /\ \E e \in OkEnvs : attempt' = [attempt EXCEPT ![p] = e]
          /\ transport' = [transport EXCEPT ![NextConn] = "up"]
          /\ task' = [task EXCEPT ![NextConn] = "run"]
          /\ tmp' = [tmp EXCEPT ![p] = NextConn]
          /\ pc' = [pc EXCEPT ![p] = "op2"]
          /\ UNCHANGED <<held, result, inputQ, resizeQ, chanIn, closed, enq, nsent,
                         wire, events>>
    /\ UNCHANGED <<regVars, cmd, arg, left, prev, xch, used, ds, mcp>>

\* the fields connect stores before it returns Ok (lines 149-151)
StoreConnection(s, h) ==
    [s EXCEPT !.ssh_client = NewClient(s.id, h), !.input_tx = h, !.resize_tx = h]

\* TerminalSession::connect after the spawn: emit Connected, store, return Ok
SessConnectFinish(p) ==
    /\ pc[p] = "op2"
    /\ events' = Append1(events, tmp[p], <<"Connected", "", 0>>)
    /\ held' = [held EXCEPT ![p] = StoreConnection(held[p], tmp[p])]
    /\ tmp' = [tmp EXCEPT ![p] = NoHandle]
    /\ result' = [result EXCEPT ![p] = Ret("Ok")]
    /\ pc' = [pc EXCEPT ![p] = AfterOp(p)]
    /\ UNCHANGED <<regVars, cmd, arg, left, prev, attempt, xch, used, ds, mcp, transport, task, inputQ,
                   resizeQ, chanIn, closed, enq, nsent, wire>>

\* mutant: a Sender whose Receiver is gone still takes items
ReceiverDroppedNever(h) == FALSE

\* the Receiver halves of connection h are dropped: they are locals of the
\* spawned task (lines 89-96) and go when it ends
ReceiverDropped(h) == task[h] = "end"

\* TerminalSession::write. tx.send() waits while the queue is full and fails
\* once the receiver is dropped (the task has ended).
SessWrite(p) ==
    /\ pc[p] = "op" /\ OpKind(p) = "write"
    /\ LET h == held[p].input_tx IN
       IF h = NoHandle \/ ReceiverDropped(h)
       THEN /\ result' = [result EXCEPT ![p] = Ret("Ssh")]
            /\ UNCHANGED <<inputQ, enq>>
       ELSE /\ Len(inputQ[h]) < InputCap
            /\ inputQ' = Append1(inputQ, h, enq[h] + 1)
            /\ enq' = [enq EXCEPT ![h] = @ + 1]
            /\ result' = [result EXCEPT ![p] = Ret("Ok")]
    /\ pc' = [pc EXCEPT ![p] = AfterOp(p)]
    /\ UNCHANGED <<regVars, cmd, arg, held, tmp, left, prev, attempt, xch, used, ds, mcp, transport, task,
                   resizeQ, chanIn, closed, nsent, wire, events>>

\* the geometry resize stores before it sends (lines 169-170)
SetGeom(s, g) == [s EXCEPT !.cols = g[1], !.rows = g[2]]

\* TerminalSession::resize
SessResize(p) ==
    /\ pc[p] = "op" /\ OpKind(p) = "resize"
    /\ \E g \in Geoms :
         LET h == held[p].resize_tx IN
         /\ held' = [held EXCEPT ![p] = SetGeom(held[p], g)]
         /\ IF h = NoHandle
            THEN /\ result' = [result EXCEPT ![p] = Ret("Ok")]
                 /\ UNCHANGED <<resizeQ, enq>>
            ELSE IF ReceiverDropped(h)
            THEN /\ result' = [result EXCEPT ![p] = Ret("Ssh")]
                 /\ UNCHANGED <<resizeQ, enq>>
            ELSE /\ Len(resizeQ[h]) < ResizeCap
                 /\ resizeQ' = Append1(resizeQ, h, <<enq[h] + 1, g>>)
                 /\ enq' = [enq EXCEPT ![h] = @ + 1]
                 /\ result' = [result EXCEPT ![p] = Ret("Ok")]
    /\ pc' = [pc EXCEPT ![p] = AfterOp(p)]
    /\ UNCHANGED <<regVars, cmd, arg, tmp, left, prev, attempt, xch, used, ds, mcp, transport, task, inputQ,
                   chanIn, closed, nsent, wire, events>>

\* mutant: the client is borrowed for the close, not taken out of the session
DisconnectedKeepsClient(s) ==
    [s EXCEPT !.input_tx = NoHandle, !.resize_tx = NoHandle]

\* what TerminalSession::disconnect leaves of the session: both senders dropped,
\* the client taken out (lines 188-191)
Disconnected(s) ==
    [s EXCEPT !.input_tx = NoHandle, !.resize_tx = NoHandle, !.ssh_client = None]

\* TerminalSession::disconnect; ok is the outcome of the underlying close
SessDisconnect(p) ==
    /\ pc[p] = "op" /\ OpKind(p) = "disconnect"
    /\ LET s == held[p] IN
       /\ held' = [held EXCEPT ![p] = HeldAfterOp(p, Disconnected(s))]
       /\ IF s.ssh_client # None /\ is_connected(s.ssh_client)
          THEN \E ok \in BOOLEAN :
                 /\ transport' = [transport EXCEPT ![s.ssh_client.session] = "down"]
                 /\ closed' = [closed EXCEPT ![s.ssh_client.session] = TRUE]
                 /\ result' = [result EXCEPT ![p] = IF ok THEN Ret("Ok") ELSE Ret("Ssh")]
          ELSE /\ result' = [result EXCEPT ![p] = Ret("Ok")]
               /\ UNCHANGED <<transport, closed>>
    /\ pc' = [pc EXCEPT ![p] = AfterOp(p)]
    /\ UNCHANGED <<regVars, cmd, arg, tmp, left, prev, attempt, xch, used, ds, mcp, task, inputQ, resizeQ,
                   chanIn, enq, nsent, wire, events>>

(* ----------------------- the multiplexer task -------------------------- *)

\* the task ends: its receivers and its channel are dropped with it
EndTask(h) ==
    /\ task' = [task EXCEPT ![h] = "end"]
    /\ inputQ' = [inputQ EXCEPT ![h] = <<>>]
    /\ resizeQ' = [resizeQ EXCEPT ![h] = <<>>]
    /\ chanIn' = [chanIn EXCEPT ![h] = <<>>]

\* the remote of connection h has stopped responding: it sends nothing, does
\* not close, and takes no more data, so channel.data does not complete
Stalled(h) == transport[h] = "stalled"

\* mutant: the input branch takes the chunk off the queue and writes nothing
LoopInputDrops(h) ==
    /\ task[h] = "run" /\ inputQ[h] # <<>>
    /\ inputQ' = [inputQ EXCEPT ![h] = Tail(@)]
    /\ UNCHANGED <<regVars, procVars, transport, closed, enq, nsent, events, wire, task,
                   resizeQ, chanIn>>

\* select! branch `Some(data) = input_rx.recv()` (lines 100-105); channel.data
\* can fail once the channel is closed
LoopInput(h) ==
    /\ task[h] = "run" /\ inputQ[h] # <<>> /\ ~Stalled(h)
    /\ \E fails \in (IF closed[h] THEN BOOLEAN ELSE {FALSE}) :
         IF fails
         THEN /\ EndTask(h)
              /\ UNCHANGED <<wire>>
         ELSE /\ wire' = Append1(wire, h, <<"data", Head(inputQ[h])>>)
              /\ inputQ' = [inputQ EXCEPT ![h] = Tail(@)]
              /\ UNCHANGED <<task, resizeQ, chanIn>>
    /\ UNCHANGED <<regVars, procVars, transport, closed, enq, nsent, events>>

\* select! branch `Some((cols, rows)) = resize_rx.recv()` (lines 107-111); a
\* failed window_change is logged and the loop goes on
LoopResize(h) ==
    /\ task[h] = "run" /\ resizeQ[h] # <<>>
    /\ \E fails \in (IF closed[h] THEN BOOLEAN ELSE {FALSE}) :
         wire' = IF fails THEN wire
                 ELSE Append1(wire, h, <<"window_change", Head(resizeQ[h])[1]>>)
    /\ resizeQ' = [resizeQ EXCEPT ![h] = Tail(@)]
    /\ UNCHANGED <<regVars, procVars, transport, task, inputQ, chanIn, closed, enq,
                   nsent, events>>

\* select! branch `msg = channel.wait()` (lines 113-138)
LoopWait(h) ==
    /\ task[h] = "run"
    /\ \/ /\ chanIn[h] # <<>>
          /\ LET msg == Head(chanIn[h]) IN
             CASE msg[1] \in {"Data", "ExtendedData1"} ->
                    /\ events' = Append1(events, h,
                                         <<"Data", FromUtf8Lossy(msg[2]), msg[3]>>)
                    /\ chanIn' = [chanIn EXCEPT ![h] = Tail(@)]
                    /\ UNCHANGED <<task, inputQ, resizeQ>>
               [] msg[1] = "Eof" ->
                    /\ events' = Append1(events, h, <<"Disconnected", "", 0>>)
                    /\ EndTask(h)
               [] OTHER ->
                    /\ chanIn' = [chanIn EXCEPT ![h] = Tail(@)]
                    /\ UNCHANGED <<events, task, inputQ, resizeQ>>
       \/ /\ chanIn[h] = <<>> /\ closed[h]
          /\ events' = Append1(events, h, <<"Disconnected", "", 0>>)
          /\ EndTask(h)
    /\ UNCHANGED <<regVars, procVars, transport, closed, enq, nsent, wire>>

(* ----------------------------- the remote ------------------------------ *)

\* what the remote can send on a shell channel; "Other" stands for every
\* message the loop ignores (ExitStatus, ExtendedData with ext # 1, ...)
Messages(n) ==
    {<<"Data", b, n>> : b \in Payloads}
      \cup {<<"ExtendedData1", "a", n>>, <<"Other", "", n>>, <<"Eof", "", n>>}

RemoteSend(h) ==
    /\ task[h] = "run" /\ ~closed[h] /\ nsent < MaxRemote
    /\ \E m \in Messages(nsent + 1) : chanIn' = Append1(chanIn, h, m)
    /\ nsent' = nsent + 1
    /\ UNCHANGED <<regVars, procVars, transport, task, inputQ, resizeQ, closed,
                   enq, wire, events>>

\* the remote stops responding
RemoteStall(h) ==
    /\ task[h] = "run" /\ ~closed[h] /\ transport[h] = "up"
    /\ transport' = [transport EXCEPT ![h] = "stalled"]
    /\ UNCHANGED <<regVars, procVars, task, inputQ, resizeQ, chanIn, closed,
                   enq, nsent, wire, events>>

\* the remote closes the channel, or the connection is lost
RemoteClose(h) ==
    /\ task[h] = "run" /\ ~closed[h]
    /\ closed' = [closed EXCEPT ![h] = TRUE]
    /\ UNCHANGED <<regVars, procVars, transport, task, inputQ, resizeQ, chanIn,
                   enq, nsent, wire, events>>

(* ------------------------- registry operations ------------------------- *)

\* mutant: the take makes a session when none is stored, as connect_terminal does
close_session_or_new(m, id) ==
    [map |-> [m EXCEPT ![id] = None],
     removed |-> IF m[id] = None THEN NewSession(id) ELSE m[id]]

\* TerminalManager::close_session: the map without id, and what was removed
close_session(m, id) == [map |-> [m EXCEPT ![id] = None], removed |-> m[id]]

\* mutant: the put-back stores a new session instead of the detached one
insert_session_fresh(m, id, s) == [m EXCEPT ![id] = NewSession(id)]

\* TerminalManager::insert_session (HashMap::insert: an entry under id is replaced)
insert_session(m, id, s) == [m EXCEPT ![id] = s]

\* TerminalManager::create_session_with_id / create_session
create_session_with_id(m, id) == [m EXCEPT ![id] = NewSession(id)]

\* TerminalManager::get_session
get_session(m, id) ==
    IF m[id] = None THEN None ELSE info(m[id])

(* -------------------------- terminal commands -------------------------- *)

TerminalCmds == {"create_terminal", "get_terminal", "connect_terminal",
                 "write_terminal", "resize_terminal", "close_terminal"}
SshCmds == {"ssh_connect", "ssh_disconnect", "ssh_send_command"}

FreshIds(reg) == {i \in Ids : <<reg, i>> \notin used}

FirstPc(k) ==
    CASE k = "create_terminal"  -> "create_lock"
      [] k = "get_terminal"     -> "get_lock"
      [] k = "connect_terminal" -> "exists_lock"
      [] k \in {"write_terminal", "resize_terminal", "close_terminal"} -> "take_lock"
      [] k = "ssh_connect"      -> "sconn"
      [] k = "ssh_disconnect"   -> "srm_lock"
      [] k = "ssh_send_command" -> "stake_lock"

Begin(p, k, i) ==
    /\ pc[p] = "idle" /\ left > 0
    /\ pc' = [pc EXCEPT ![p] = FirstPc(k)]
    /\ cmd' = [cmd EXCEPT ![p] = k]
    /\ arg' = [arg EXCEPT ![p] = i]
    /\ result' = [result EXCEPT ![p] = Ret("none")]
    /\ left' = left - 1
    /\ used' = used \cup {<<IF k \in SshCmds THEN "ssh" ELSE "terminal", i>>}
    /\ attempt' = [attempt EXCEPT ![p] = NoAttempt]
    /\ UNCHANGED <<regVars, held, tmp, prev, xch, ds, mcp, connVars>>

\* id i is the Uuid::new_v4 of a create_terminal / ssh connect that has not
\* returned it yet: no caller can name it
Unpublished(k, i) ==
    \E q \in Procs :
       /\ pc[q] # "idle" /\ arg[q] = i
       /\ cmd[q] = (IF k \in SshCmds THEN "ssh_connect" ELSE "create_terminal")

\* a command is invoked with a session id of the caller's choosing
StartOnId(p) ==
    \E k \in (TerminalCmds \cup SshCmds) \ {"create_terminal", "ssh_connect"},
       i \in Ids : ~Unpublished(k, i) /\ Begin(p, k, i)

\* create_terminal and ssh connect make their id with Uuid::new_v4
StartFresh(p) ==
    \E k \in {"create_terminal", "ssh_connect"} :
       /\ FreshIds(IF k = "ssh_connect" THEN "ssh" ELSE "terminal") # {}
       /\ \E i \in FreshIds(IF k = "ssh_connect" THEN "ssh" ELSE "terminal") :
            Begin(p, k, i)

\* connect_terminal with an auth_type that is none of the three (lines 42-50)
StartInvalidAuth(p) ==
    /\ pc[p] = "idle" /\ left > 0
    /\ \E i \in Ids :
         /\ arg' = [arg EXCEPT ![p] = i]
         /\ used' = used \cup {<<"terminal", i>>}
    /\ cmd' = [cmd EXCEPT ![p] = "connect_terminal"]
    /\ result' = [result EXCEPT ![p] = Ret("ConnectionFailed")]
    /\ left' = left - 1
    /\ attempt' = [attempt EXCEPT ![p] = NoAttempt]
    /\ UNCHANGED <<regVars, pc, held, tmp, prev, xch, ds, mcp, connVars>>

\* manager().read().await / manager().write().await: the wait for the guard
ReadLockPcs  == {"get_lock", "exists_lock"}
WriteLockPcs == {"create_lock", "mk_lock", "take_lock", "put_lock"}
CsOf(l) ==
    CASE l = "get_lock" -> "get_cs"       [] l = "exists_lock" -> "exists_cs"
      [] l = "create_lock" -> "create_cs" [] l = "mk_lock" -> "mk_cs"
      [] l = "take_lock" -> "take_cs"     [] l = "put_lock" -> "put_cs"
      [] l = "sins_lock" -> "sins_cs"     [] l = "srm_lock" -> "srm_cs"
      [] l = "stake_lock" -> "stake_cs"   [] l = "sput_lock" -> "sput_cs"

AcquireRead(p) ==
    /\ pc[p] \in ReadLockPcs /\ CanRead(lock)
    /\ lock' = LockRead(lock, p)
    /\ pc' = [pc EXCEPT ![p] = CsOf(pc[p])]
    /\ UNCHANGED <<sessions, clients, clock, cmd, arg, held, tmp, result, left, prev, attempt, xch,
                   used, ds, mcp, connVars>>

AcquireWrite(p) ==
    /\ pc[p] \in WriteLockPcs /\ CanWrite(lock)
    /\ lock' = LockWrite(lock, p)
    /\ pc' = [pc EXCEPT ![p] = CsOf(pc[p])]
    /\ UNCHANGED <<sessions, clients, clock, cmd, arg, held, tmp, result, left, prev, attempt, xch,
                   used, ds, mcp, connVars>>

\* create_terminal (lines 8-12)
CreateCs(p) ==
    /\ pc[p] = "create_cs"
    /\ sessions' = create_session_with_id(sessions, arg[p])
    /\ lock' = Unlock(lock, p)
    /\ result' = [result EXCEPT ![p] = [code |-> "Ok", val |-> info(NewSession(arg[p]))]]
    /\ pc' = [pc EXCEPT ![p] = "idle"]
    /\ UNCHANGED <<clients, clock, cmd, arg, held, tmp, left, prev, attempt, xch, used, ds, mcp, connVars>>

\* get_terminal (lines 15-21)
GetCs(p) ==
    /\ pc[p] = "get_cs"
    /\ lock' = Unlock(lock, p)
    /\ result' = [result EXCEPT ![p] =
                    IF get_session(sessions, arg[p]) = None
                    THEN Ret("SessionNotFound")
                    ELSE [code |-> "Ok", val |-> get_session(sessions, arg[p])]]
    /\ pc' = [pc EXCEPT ![p] = "idle"]
    /\ UNCHANGED <<sessions, clients, clock, cmd, arg, held, tmp, left, prev, attempt, xch, used, ds, mcp,
                   connVars>>

\* connect_terminal: `session_exists` (line 61)
ExistsCs(p) ==
    /\ pc[p] = "exists_cs"
    /\ lock' = Unlock(lock, p)
    /\ pc' = [pc EXCEPT ![p] = IF get_session(sessions, arg[p]) # None
                               THEN "take_lock" ELSE "mk_lock"]
    /\ UNCHANGED <<sessions, clients, clock, cmd, arg, held, tmp, result, left, prev, attempt, xch,
                   used, ds, mcp, connVars>>

\* connect_terminal: create the missing session (lines 62-66)
MkCs(p) ==
    /\ pc[p] = "mk_cs"
    /\ sessions' = create_session_with_id(sessions, arg[p])
    /\ lock' = Unlock(lock, p)
    /\ pc' = [pc EXCEPT ![p] = "take_lock"]
    /\ UNCHANGED <<clients, clock, cmd, arg, held, tmp, result, left, prev, attempt, xch, used, ds, mcp,
                   connVars>>

\* the take: close_session(session_id).ok_or_else(SessionNotFound)?
TakeCs(p) ==
    /\ pc[p] = "take_cs"
    /\ lock' = Unlock(lock, p)
    /\ LET r == close_session(sessions, arg[p]) IN
       IF r.removed = None
       THEN /\ result' = [result EXCEPT ![p] = Ret("SessionNotFound")]
            /\ pc' = [pc EXCEPT ![p] = "idle"]
            /\ UNCHANGED <<sessions, held>>
       ELSE /\ sessions' = r.map
            /\ held' = [held EXCEPT ![p] = r.removed]
            /\ pc' = [pc EXCEPT ![p] = "op"]
            /\ UNCHANGED result
    /\ UNCHANGED <<clients, clock, cmd, arg, tmp, left, prev, attempt, xch, used, ds, mcp, connVars>>

\* the put-back: insert_session(session_id, session), then `result` is returned
PutCs(p) ==
    /\ pc[p] = "put_cs"
    /\ sessions' = insert_session(sessions, arg[p], held[p])
    /\ held' = [held EXCEPT ![p] = None]
    /\ lock' = Unlock(lock, p)
    /\ pc' = [pc EXCEPT ![p] = "idle"]
    /\ UNCHANGED <<clients, clock, cmd, arg, tmp, result, left, prev, attempt, xch, used, ds, mcp, connVars>>

(* ---------------------------- ssh commands ----------------------------- *)

SshLockPcs == {"sins_lock", "srm_lock", "stake_lock", "sput_lock"}

\* clients().write().await
SshAcquire(p) ==
    /\ pc[p] \in SshLockPcs /\ CanWrite(clock)
    /\ clock' = LockWrite(clock, p)
    /\ pc' = [pc EXCEPT ![p] = CsOf(pc[p])]
    /\ UNCHANGED <<sessions, lock, clients, cmd, arg, held, tmp, result, left,
                   prev, attempt, xch, used, ds, mcp, connVars>>

\* mutant: the handle is only borrowed for the close
ClientDisconnectKeeps(c) == c

\* SshClient::disconnect: the handle is taken whatever the close returns
ClientDisconnect(c) == [c EXCEPT !.session = NoHandle]

\* mutant: ssh connect stores its client whatever client.connect() returned
SshConnectInsertsAnyway(p) ==
    /\ pc[p] = "sconn"
    /\ \E e \in ConnectEnvs :
         /\ attempt' = [attempt EXCEPT ![p] = e]
         /\ IF client_connect(e) = "Ok"
            THEN /\ FreshConns # {}
                 /\ transport' = [transport EXCEPT ![NextConn] = "up"]
                 /\ held' = [held EXCEPT ![p] = NewClient(arg[p], NextConn)]
            ELSE /\ held' = [held EXCEPT ![p] = NewClient(arg[p], NoHandle)]
                 /\ UNCHANGED transport
    /\ pc' = [pc EXCEPT ![p] = "sins_lock"]
    /\ UNCHANGED <<regVars, result, cmd, arg, tmp, left, prev, xch, used, ds, mcp, task,
                   inputQ, resizeQ, chanIn, closed, enq, nsent, wire, events>>

\* ssh connect: SshClient::new, client.connect().await? (lines 9-12)
SshConnect(p) ==
    /\ pc[p] = "sconn"
    /\ \E e \in ConnectEnvs :
         /\ attempt' = [attempt EXCEPT ![p] = e]
         /\ IF client_connect(e) = "Ok"
            THEN /\ FreshConns # {}
                 /\ transport' = [transport EXCEPT ![NextConn] = "up"]
                 /\ held' = [held EXCEPT ![p] = NewClient(arg[p], NextConn)]
                 /\ pc' = [pc EXCEPT ![p] = "sins_lock"]
                 /\ UNCHANGED result
            ELSE /\ result' = [result EXCEPT ![p] = Ret(client_connect(e))]
                 /\ pc' = [pc EXCEPT ![p] = "idle"]
                 /\ UNCHANGED <<held, transport>>
    /\ UNCHANGED <<regVars, cmd, arg, tmp, left, prev, xch, used, ds, mcp, task, inputQ,
                   resizeQ, chanIn, closed, enq, nsent, wire, events>>

\* ssh connect: clients().write().await.insert(id, client); Ok(id) (lines 13-15)
SshInsertCs(p) ==
    /\ pc[p] = "sins_cs"
    /\ clients' = [clients EXCEPT ![arg[p]] = held[p]]
    /\ held' = [held EXCEPT ![p] = None]
    /\ clock' = Unlock(clock, p)
    /\ result' = [result EXCEPT ![p] = Ret("Ok")]
    /\ pc' = [pc EXCEPT ![p] = "idle"]
    /\ UNCHANGED <<sessions, lock, cmd, arg, tmp, left, prev, attempt, xch, used, ds, mcp, connVars>>

\* ssh disconnect: remove from the map (line 23), Ok when nothing was there
SshRemoveCs(p) ==
    /\ pc[p] = "srm_cs"
    /\ clients' = [clients EXCEPT ![arg[p]] = None]
    /\ clock' = Unlock(clock, p)
    /\ IF clients[arg[p]] = None
       THEN /\ result' = [result EXCEPT ![p] = Ret("Ok")]
            /\ pc' = [pc EXCEPT ![p] = "idle"]
            /\ UNCHANGED held
       ELSE /\ held' = [held EXCEPT ![p] = clients[arg[p]]]
            /\ pc' = [pc EXCEPT ![p] = "sdisc"]
            /\ UNCHANGED result
    /\ UNCHANGED <<sessions, lock, cmd, arg, tmp, left, prev, attempt, xch, used, ds, mcp, connVars>>

\* where a client method returns to: the caller that owns the client, the
\* put-back of send_command, the return of ssh disconnect
AfterClientOp(p) ==
    IF cmd[p] = "measure_latency" THEN "lat"
    ELSE IF p = Caller THEN "capi"
    ELSE IF cmd[p] = "ssh_disconnect" THEN "idle" ELSE "sput_lock"

\* the local `client` of ssh disconnect is dropped when the command returns
HeldAfterClientOp(p, c) ==
    IF p # Caller /\ cmd[p] = "ssh_disconnect" THEN None ELSE c

\* SshClient::disconnect (lines 342-351), called by ssh disconnect (lines
\* 25-29) or by the owner of the client; ok is the outcome of the close
SshDisconnect(p) ==
    /\ pc[p] = "sdisc"
    /\ LET h == held[p].session IN
       IF h # NoHandle
       THEN \E ok \in BOOLEAN :
              /\ transport' = [transport EXCEPT ![h] = "down"]
              /\ result' = [result EXCEPT ![p] = IF ok THEN Ret("Ok") ELSE Ret("Russh")]
       ELSE /\ result' = [result EXCEPT ![p] = Ret("Ok")]
            /\ UNCHANGED transport
    /\ held' = [held EXCEPT ![p] = HeldAfterClientOp(p, ClientDisconnect(held[p]))]
    /\ pc' = [pc EXCEPT ![p] = AfterClientOp(p)]
    /\ UNCHANGED <<regVars, cmd, arg, tmp, left, prev, attempt, xch, used, ds, mcp, task,
                   inputQ, resizeQ, chanIn, closed, enq, nsent, wire, events>>

\* send_command: remove(&session_id).ok_or(NotConnected)? (lines 37-40)
SshTakeCs(p) ==
    /\ pc[p] = "stake_cs"
    /\ clock' = Unlock(clock, p)
    /\ IF clients[arg[p]] = None
       THEN /\ result' = [result EXCEPT ![p] = Ret("NotConnected")]
            /\ pc' = [pc EXCEPT ![p] = "idle"]
            /\ UNCHANGED <<clients, held>>
       ELSE /\ clients' = [clients EXCEPT ![arg[p]] = None]
            /\ held' = [held EXCEPT ![p] = clients[arg[p]]]
            /\ pc' = [pc EXCEPT ![p] = "sexec"]
            /\ UNCHANGED result
    /\ UNCHANGED <<sessions, lock, cmd, arg, tmp, left, prev, attempt, xch, used, ds, mcp, connVars>>

\* what the server can send on an Exec channel; "Other" stands for every
\* message execute ignores, "None" for wait() on a closed channel
ExitCodes == {0, 3}
ExecMessages ==
    {<<"Data", b, 0>> : b \in Payloads}
      \cup {<<"ExtendedData1", "a", 0>>, <<"ExtendedData2", "a", 0>>,
            <<"Other", "", 0>>, <<"Eof", "", 0>>, <<"None", "", 0>>}
      \cup {<<"ExitStatus", "", v>> : v \in ExitCodes}

\* what the server sends between its Eof and the close of the channel: nothing,
\* or the exit status of the command. execute has left its loop at the Eof
\* (line 294), so these messages are dropped with the channel; `late` keeps
\* them for the record.
AfterEof == {<<>>} \cup {<<v>> : v \in ExitCodes}

\* String::from_utf8_lossy of a buffer made of the payloads received
LossyText(buf) == [i \in DOMAIN buf |-> FromUtf8Lossy(buf[i])]

\* the CommandOutput execute builds from its locals (lines 299-303)
CommandOutput(x) ==
    [stdout |-> LossyText(x.stdout), stderr |-> LossyText(x.stderr),
     exit_code |-> x.exit_code]

\* SshClient::execute up to its loop (lines 270-277), called by send_command
\* (line 42) or by the owner of the client
SshExecute(p) ==
    /\ pc[p] = "sexec"
    /\ IF ~is_connected(held[p])
       THEN /\ result' = [result EXCEPT ![p] = Ret("NotConnected")]
            /\ pc' = [pc EXCEPT ![p] = AfterClientOp(p)]
            /\ UNCHANGED xch
       ELSE \/ \* channel_open_session or exec fails
               /\ result' = [result EXCEPT ![p] = Ret("Russh")]
               /\ pc' = [pc EXCEPT ![p] = AfterClientOp(p)]
               /\ UNCHANGED xch
            \/ /\ xch' = [xch EXCEPT ![p] = NoExec]
               /\ pc' = [pc EXCEPT ![p] = "xloop"]
               /\ UNCHANGED result
    /\ UNCHANGED <<regVars, cmd, arg, held, tmp, left, prev, attempt, used, ds, mcp, connVars>>

\* one turn of execute's loop (lines 279-297) and, when it breaks, the return
\* of CommandOutput (lines 299-303)
ExecuteRecv(p) ==
    /\ pc[p] = "xloop"
    /\ \E m \in ExecMessages :
         CASE m[1] = "ExitStatus" ->
                /\ xch[p].n < MaxExecMsgs
                /\ xch' = [xch EXCEPT ![p].exit_code = m[3],
                                      ![p].status = Append(@, m[3]),
                                      ![p].n = @ + 1]
                /\ UNCHANGED <<pc, result>>
           [] m[1] = "Data" ->
                /\ xch[p].n < MaxExecMsgs
                /\ xch' = [xch EXCEPT ![p].stdout = Append(@, m[2]), ![p].n = @ + 1]
                /\ UNCHANGED <<pc, result>>
           [] m[1] = "ExtendedData1" ->
                /\ xch[p].n < MaxExecMsgs
                /\ xch' = [xch EXCEPT ![p].stderr = Append(@, m[2]), ![p].n = @ + 1]
                /\ UNCHANGED <<pc, result>>
           [] m[1] = "Eof" ->
                /\ result' = [result EXCEPT ![p] =
                                [code |-> "Ok", val |-> CommandOutput(xch[p])]]
                /\ pc' = [pc EXCEPT ![p] = AfterClientOp(p)]
                /\ \E tail \in AfterEof : xch' = [xch EXCEPT ![p].late = tail]
           [] m[1] = "None" ->
                /\ result' = [result EXCEPT ![p] =
                                [code |-> "Ok", val |-> CommandOutput(xch[p])]]
                /\ pc' = [pc EXCEPT ![p] = AfterClientOp(p)]
                /\ UNCHANGED xch
           [] OTHER ->
                /\ xch[p].n < MaxExecMsgs
                /\ xch' = [xch EXCEPT ![p].n = @ + 1]
                /\ UNCHANGED <<pc, result>>
    /\ UNCHANGED <<regVars, cmd, arg, held, tmp, left, prev, attempt, used, ds, mcp, connVars>>

\* send_command: clients().write().await.insert(session_id, client) (line 45)
SshPutCs(p) ==
    /\ pc[p] = "sput_cs"
    /\ clients' = [clients EXCEPT ![arg[p]] = held[p]]
    /\ held' = [held EXCEPT ![p] = None]
    /\ clock' = Unlock(clock, p)
    /\ pc' = [pc EXCEPT ![p] = "idle"]
    /\ UNCHANGED <<sessions, lock, cmd, arg, tmp, result, left, prev, attempt, xch, used, ds, mcp, connVars>>

(* --------------------- the caller of SessionSpec ----------------------- *)

Methods == {"connect", "write", "resize", "disconnect"}

\* the owner of a TerminalSession calls one of its methods (&mut self: the
\* calls of one session never overlap)
ApiCall ==
    /\ pc[Caller] = "api" /\ left > 0
    /\ \E k \in Methods : cmd' = [cmd EXCEPT ![Caller] = k]
    /\ prev' = cmd[Caller]
    /\ pc' = [pc EXCEPT ![Caller] = "op"]
    /\ result' = [result EXCEPT ![Caller] = Ret("none")]
    /\ left' = left - 1
    /\ UNCHANGED <<regVars, arg, held, tmp, used, ds, mcp, attempt, xch, connVars>>

(* ------------- latency probes on the session's transport -------------- *)

\* the milliseconds measure_latency can report (start.elapsed())
Latencies == {0, 1}

\* measure_latency is called on the SshClient of the session, between two
\* method calls of the session (&mut on the client)
ProbeCall ==
    /\ pc[Caller] = "api" /\ left > 0
    /\ held[Caller].ssh_client # None
    /\ cmd' = [cmd EXCEPT ![Caller] = "measure_latency"]
    /\ prev' = cmd[Caller]
    /\ pc' = [pc EXCEPT ![Caller] = "probe"]
    /\ result' = [result EXCEPT ![Caller] = Ret("none")]
    /\ left' = left - 1
    /\ UNCHANGED <<regVars, arg, held, tmp, used, ds, mcp, attempt, xch, connVars>>

\* mutant: the probe writes its command to the interactive shell channel
ProbeExecuteOnShell(p) ==
    /\ pc[p] = "probe"
    /\ is_connected(held[p].ssh_client)
    /\ wire' = Append1(wire, held[p].ssh_client.session, <<"data", 0>>)
    /\ xch' = [xch EXCEPT ![p] = NoExec]
    /\ pc' = [pc EXCEPT ![p] = "xloop"]
    /\ UNCHANGED <<regVars, cmd, arg, held, tmp, result, left, prev, attempt, used, ds, mcp,
                   transport, task, inputQ, resizeQ, chanIn, closed, enq, nsent, events>>

\* self.execute("echo ping") of measure_latency (line 356) up to execute's
\* loop: the probe's channel is a new one, opened by channel_open_session
ProbeExecute(p) ==
    /\ pc[p] = "probe"
    /\ IF ~is_connected(held[p].ssh_client)
       THEN /\ result' = [result EXCEPT ![p] = Ret("NotConnected")]
            /\ pc' = [pc EXCEPT ![p] = "lat"]
            /\ UNCHANGED xch
       ELSE \/ /\ result' = [result EXCEPT ![p] = Ret("Russh")]
               /\ pc' = [pc EXCEPT ![p] = "lat"]
               /\ UNCHANGED xch
            \/ /\ xch' = [xch EXCEPT ![p] = NoExec]
               /\ pc' = [pc EXCEPT ![p] = "xloop"]
               /\ UNCHANGED result
    /\ UNCHANGED <<regVars, cmd, arg, held, tmp, left, prev, attempt, used, ds, mcp, connVars>>

\* measure_latency returns: the error of execute through `?`, or Ok(latency)
\* with the CommandOutput discarded (lines 356-358)
LatencyReturn(p) ==
    /\ pc[p] = "lat"
    /\ IF result[p].code = "Ok"
       THEN \E ms \in Latencies :
              result' = [result EXCEPT ![p] = [code |-> "Ok", val |-> [latency |-> ms]]]
       ELSE UNCHANGED result
    /\ pc' = [pc EXCEPT ![p] = "api"]
    /\ UNCHANGED <<regVars, cmd, arg, held, tmp, left, prev, attempt, xch, used, ds, mcp, connVars>>

(* ----------------------- the owner of an SshClient --------------------- *)

ClientMethods == {"connect", "execute", "disconnect"}

ClientFirstPc(k) ==
    CASE k = "connect" -> "cconn" [] k = "execute" -> "sexec" [] k = "disconnect" -> "sdisc"

\* the owner of an SshClient calls one of its methods (&mut self: the calls
\* on one client never overlap)
ClientApiCall ==
    /\ pc[Caller] = "capi" /\ left > 0
    /\ \E k \in ClientMethods :
         /\ cmd' = [cmd EXCEPT ![Caller] = k]
         /\ pc' = [pc EXCEPT ![Caller] = ClientFirstPc(k)]
    /\ prev' = cmd[Caller]
    /\ result' = [result EXCEPT ![Caller] = Ret("none")]
    /\ left' = left - 1
    /\ UNCHANGED <<regVars, arg, held, tmp, used, ds, mcp, attempt, xch, connVars>>

\* SshClient::connect on a client its caller owns: the handle is stored on
\* success only (line 264)
ClientConnect(p) ==
    /\ pc[p] = "cconn"
    /\ \E e \in ConnectEnvs :
         /\ attempt' = [attempt EXCEPT ![p] = e]
         /\ IF client_connect(e) = "Ok"
            THEN /\ FreshConns # {}
                 /\ transport' = [transport EXCEPT ![NextConn] = "up"]
                 /\ held' = [held EXCEPT ![p].session = NextConn]
            ELSE UNCHANGED <<held, transport>>
         /\ result' = [result EXCEPT ![p] = Ret(client_connect(e))]
    /\ pc' = [pc EXCEPT ![p] = "capi"]
    /\ UNCHANGED <<regVars, cmd, arg, tmp, left, prev, xch, used, ds, mcp, task, inputQ,
                   resizeQ, chanIn, closed, enq, nsent, wire, events>>

\* SshClient::connect past the handshake (lines 234-257): the await of
\* authenticate_password / authenticate_publickey, which no timeout wraps,
\* stays pending while the server is silent
ClientAuthPending(p) ==
    /\ pc[p] = "cconn"
    /\ \E e \in SilentEnvs : attempt' = [attempt EXCEPT ![p] = e]
    /\ pc' = [pc EXCEPT ![p] = "cauth"]
    /\ UNCHANGED <<regVars, cmd, arg, held, tmp, result, left, prev, xch, used, ds, mcp, connVars>>

(* --------------------------- specifications ---------------------------- *)

InitConns ==
    /\ transport = [h \in Conns |-> "none"]
    /\ task = [h \in Conns |-> "none"]
    /\ inputQ = [h \in Conns |-> <<>>]
    /\ resizeQ = [h \in Conns |-> <<>>]
    /\ chanIn = [h \in Conns |-> <<>>]
    /\ closed = [h \in Conns |-> FALSE]
    /\ enq = [h \in Conns |-> 0]
    /\ nsent = 0
    /\ wire = [h \in Conns |-> <<>>]
    /\ events = [h \in Conns |-> <<>>]

InitRegs ==
    /\ sessions = [i \in Ids |-> None]
    /\ lock = FreeLock
    /\ clients = [i \in Ids |-> None]
    /\ clock = FreeLock

\* no command running
InitProcs ==
    /\ pc = [p \in AllProcs |-> IF p = Caller THEN "off" ELSE "idle"]
    /\ cmd = [p \in AllProcs |-> "none"]
    /\ arg = [p \in AllProcs |-> 1]
    /\ held = [p \in AllProcs |-> None]
    /\ tmp = [p \in AllProcs |-> NoHandle]
    /\ result = [p \in AllProcs |-> Ret("none")]
    /\ prev = "none" /\ used = {}
    /\ attempt = [p \in AllProcs |-> NoAttempt]
    /\ xch = [p \in AllProcs |-> NoExec]
    /\ ds = NoDs /\ mcp = NoMcp

\* TerminalManager::new, an empty client map, no command running
Init == InitRegs /\ InitConns /\ InitProcs /\ left = MaxCmds

Next ==
    \/ \E p \in Procs :
         \/ StartOnId(p) \/ StartFresh(p) \/ StartInvalidAuth(p)
         \/ AcquireRead(p) \/ AcquireWrite(p)
         \/ CreateCs(p) \/ GetCs(p) \/ ExistsCs(p) \/ MkCs(p) \/ TakeCs(p) \/ PutCs(p)
         \/ SessConnectSpawn(p) \/ SessConnectFinish(p)
         \/ SessWrite(p) \/ SessResize(p) \/ SessDisconnect(p)
         \/ SshAcquire(p) \/ SshConnect(p) \/ SshInsertCs(p) \/ SshRemoveCs(p)
         \/ SshDisconnect(p) \/ SshTakeCs(p) \/ SshExecute(p) \/ ExecuteRecv(p)
         \/ SshPutCs(p)
    \/ \E h \in Conns :
         \/ LoopInput(h) \/ LoopResize(h) \/ LoopWait(h)
         \/ RemoteClose(h)

Spec == Init /\ [][Next]_vars

\* the steps a command takes while it holds a registry guard
CsStep(p) ==
    \/ CreateCs(p) \/ GetCs(p) \/ ExistsCs(p) \/ MkCs(p) \/ TakeCs(p) \/ PutCs(p)
    \/ SshInsertCs(p) \/ SshRemoveCs(p) \/ SshTakeCs(p) \/ SshPutCs(p)

\* The runtime keeps polling a task that can make progress (weak fairness of
\* the steps under a guard), and the RwLock hands the guard to its waiters in
\* turn, so a waiter is not passed over forever (strong fairness of the
\* acquisitions).
Fairness ==
    \A p \in Procs :
       /\ WF_vars(CsStep(p))
       /\ SF_vars(AcquireRead(p)) /\ SF_vars(AcquireWrite(p)) /\ SF_vars(SshAcquire(p))

\* the same commands, fewer of them
FairInit == InitRegs /\ InitConns /\ InitProcs /\ left = MaxFairCmds

FairSpec == FairInit /\ [][Next]_vars /\ Fairness

\* TerminalSession::new: one unconnected session, owned by the caller
SessionStart ==
    /\ InitRegs /\ InitConns
    /\ pc = [p \in AllProcs |-> IF p = Caller THEN "api" ELSE "idle"]
    /\ cmd = [p \in AllProcs |-> "none"]
    /\ arg = [p \in AllProcs |-> 1]
    /\ held = [p \in AllProcs |-> IF p = Caller THEN NewSession(1) ELSE None]
    /\ tmp = [p \in AllProcs |-> NoHandle]
    /\ result = [p \in AllProcs |-> Ret("none")]
    /\ prev = "none" /\ used = {}
    /\ attempt = [p \in AllProcs |-> NoAttempt]
    /\ xch = [p \in AllProcs |-> NoExec]
    /\ ds = NoDs /\ mcp = NoMcp

SessionInit == SessionStart /\ left = MaxCalls

SessionNext ==
    \/ ApiCall
    \/ SessConnectSpawn(Caller) \/ SessConnectFinish(Caller)
    \/ SessWrite(Caller) \/ SessResize(Caller) \/ SessDisconnect(Caller)
    \/ \E h \in Conns :
         \/ LoopInput(h) \/ LoopResize(h) \/ LoopWait(h)
         \/ RemoteSend(h) \/ RemoteClose(h)

SessionSpec == SessionInit /\ [][SessionNext]_vars

\* The runtime keeps polling a spawned task whose select! has a ready branch,
\* and a method call that can complete does complete.
SessionFairness ==
    /\ \A h \in Conns :
         WF_vars(LoopInput(h)) /\ WF_vars(LoopResize(h)) /\ WF_vars(LoopWait(h))
    /\ WF_vars(SessConnectFinish(Caller))

FairSessionInit == SessionStart /\ left = MaxFairCmds

FairSessionSpec == FairSessionInit /\ [][SessionNext]_vars /\ SessionFairness

\* the session's owner also probes the latency of the session's transport
ProbeNext ==
    \/ SessionNext
    \/ ProbeCall \/ ProbeExecute(Caller) \/ ExecuteRecv(Caller) \/ LatencyReturn(Caller)

ProbeSpec == SessionInit /\ [][ProbeNext]_vars

\* SshClient::new: one unconnected client, owned by the caller
ClientInit ==
    /\ InitRegs /\ InitConns
    /\ pc = [p \in AllProcs |-> IF p = Caller THEN "capi" ELSE "idle"]
    /\ cmd = [p \in AllProcs |-> "none"]
    /\ arg = [p \in AllProcs |-> 1]
    /\ held = [p \in AllProcs |-> IF p = Caller THEN NewClient(1, NoHandle) ELSE None]
    /\ tmp = [p \in AllProcs |-> NoHandle]
    /\ result = [p \in AllProcs |-> Ret("none")]
    /\ left = MaxCalls /\ prev = "none" /\ used = {}
    /\ attempt = [p \in AllProcs |-> NoAttempt]
    /\ xch = [p \in AllProcs |-> NoExec]
    /\ ds = NoDs /\ mcp = NoMcp

ClientNext ==
    \/ ClientApiCall
    \/ ClientConnect(Caller) \/ ClientAuthPending(Caller)
    \/ SshExecute(Caller) \/ ExecuteRecv(Caller)
    \/ SshDisconnect(Caller)

ClientSpec == ClientInit /\ [][ClientNext]_vars

\* the runtime keeps polling the method the owner awaits
ClientFairness ==
    /\ WF_vars(ClientConnect(Caller) \/ ClientAuthPending(Caller))
    /\ WF_vars(SshExecute(Caller)) /\ WF_vars(ExecuteRecv(Caller))
    /\ WF_vars(SshDisconnect(Caller))

FairClientSpec == ClientInit /\ [][ClientNext]_vars /\ ClientFairness

(* ------------- terminal commands against a stalling remote ------------- *)

\* invocations in a behaviour of StallSpec
MaxStallCmds == 4

StallCmds == {"connect_terminal", "write_terminal", "close_terminal"}

\* connect_terminal, write_terminal or close_terminal is invoked for session 1
StartStall(p) == \E k \in StallCmds : Begin(p, k, 1)

StallInit == InitRegs /\ InitConns /\ InitProcs /\ left = MaxStallCmds

\* the steps of a command between its registry steps
OpStep(p) ==
    \/ SessConnectSpawn(p) \/ SessConnectFinish(p)
    \/ SessWrite(p) \/ SessDisconnect(p)

StallNext ==
    \/ \E p \in Procs :
         \/ StartStall(p)
         \/ AcquireRead(p) \/ AcquireWrite(p)
         \/ ExistsCs(p) \/ MkCs(p) \/ TakeCs(p) \/ PutCs(p)
         \/ OpStep(p)
    \/ \E h \in Conns :
         \/ LoopInput(h) \/ LoopWait(h)
         \/ RemoteStall(h)

\* the runtime keeps polling commands and the spawned task; the remote is
\* under no obligation
StallFairness ==
    /\ \A p \in Procs :
          /\ WF_vars(CsStep(p)) /\ WF_vars(OpStep(p))
          /\ SF_vars(AcquireRead(p)) /\ SF_vars(AcquireWrite(p))
    /\ \A h \in Conns : WF_vars(LoopInput(h)) /\ WF_vars(LoopWait(h))

StallSpec == StallInit /\ [][StallNext]_vars /\ StallFairness

(* ---------------- the caller of DataSphereCrypto ----------------------- *)

DsFrame ==
    UNCHANGED <<regVars, pc, cmd, arg, held, tmp, result, left, prev, attempt, xch, used,
                mcp, connVars>>

\* builds instance c from what from_key / from_password returned; `from` keeps
\* the key material it was built from
DsBuild(c, made, material) ==
    /\ ds.crypto[c] = None
    /\ made.ok
    /\ ds' = [ds EXCEPT !.crypto[c] = [cipher |-> made.val.cipher, from |-> material]]
    /\ DsFrame

\* let crypto = DataSphereCrypto::from_key(&key)
DsFromKey(c) ==
    \E key \in Keys : DsBuild(c, from_key(key), [key |-> key])

\* let crypto = DataSphereCrypto::from_password(password, &salt).unwrap()
DsFromPassword(c) ==
    \E password \in Passwords, salt \in Salts :
       DsBuild(c, from_password(password, salt), [password |-> password, salt |-> salt])

\* let encrypted = crypto.encrypt(plaintext).unwrap(), by instance 1
DsEncrypt ==
    /\ ds.crypto[1] # None /\ ds.enc = None
    /\ \E plaintext \in Plaintexts, nonce \in Nonces :
         ds' = [ds EXCEPT !.pt = plaintext,
                          !.enc = encrypt(ds.crypto[1], plaintext, nonce)]
    /\ DsFrame

\* let decrypted = crypto.decrypt(&encrypted), by either instance
DsDecrypt(c) ==
    /\ ds.crypto[c] # None /\ ds.enc # None /\ ds.dec = None
    /\ ds' = [ds EXCEPT !.dec = [by |-> c, res |-> decrypt(ds.crypto[c], ds.enc)]]
    /\ DsFrame

CryptoInit == InitRegs /\ InitConns /\ InitProcs /\ left = 0

CryptoNext ==
    \/ \E c \in 1..2 : DsFromKey(c) \/ DsFromPassword(c) \/ DsDecrypt(c)
    \/ DsEncrypt

CryptoSpec == CryptoInit /\ [][CryptoNext]_vars

(* --------------------------------- mcp --------------------------------- *)

McpFrame ==
    UNCHANGED <<regVars, pc, cmd, arg, held, tmp, result, left, prev, attempt, xch, used,
                ds, connVars>>

\* let server = McpServer::new(config)
McpNew ==
    /\ mcp.server = None
    /\ \E config \in McpConfigs : mcp' = [mcp EXCEPT !.server = McpServerNew(config)]
    /\ McpFrame

\* server.process_request(request).await
McpProcessRequest ==
    /\ mcp.server # None /\ mcp.nreq < MaxRequests
    /\ \E request \in Requests :
         LET r == process_request(mcp.server, request, mcp.made + 1) IN
         mcp' = [mcp EXCEPT !.server = r.server,
                            !.executed = @ \o r.executed,
                            !.req = request, !.ret = r.ret,
                            !.made = Len(r.server.pending_approvals)
                                       - Len(mcp.server.pending_approvals) + @,
                            !.nreq = @ + 1]
    /\ McpFrame

\* server.approve_request(id, remember); id 0 is an id no approval has
McpApproveRequest ==
    /\ mcp.server # None
    /\ \E id \in 0..mcp.made, remember \in BOOLEAN :
         LET r == approve_request(mcp.server, id, remember) IN
         mcp' = [mcp EXCEPT !.server = r.server, !.req = None,
                            !.ret = [code |-> "Ok", val |-> [found |-> r.found]]]
    /\ McpFrame

\* server.deny_request(id, remember)
McpDenyRequest ==
    /\ mcp.server # None
    /\ \E id \in 0..mcp.made, remember \in BOOLEAN :
         LET r == deny_request(mcp.server, id, remember) IN
         mcp' = [mcp EXCEPT !.server = r.server, !.req = None,
                            !.ret = [code |-> "Ok", val |-> [found |-> r.found]]]
    /\ McpFrame

McpInit == InitRegs /\ InitConns /\ InitProcs /\ left = 0

McpNext == McpNew \/ McpProcessRequest \/ McpApproveRequest \/ McpDenyRequest

McpSpec == McpInit /\ [][McpNext]_vars

\* pm.grant(&ability) on a PermissionManager::default()
PmGrant ==
    /\ Len(mcp.calls) < MaxPermCalls
    /\ \E ability \in Abilities :
         mcp' = [mcp EXCEPT !.pm = grant(@, ability),
                            !.calls = Append(@, <<"grant", ability>>),
                            !.chk = None]
    /\ McpFrame

\* pm.block(&ability)
PmBlock ==
    /\ Len(mcp.calls) < MaxPermCalls
    /\ \E ability \in Abilities :
         mcp' = [mcp EXCEPT !.pm = block(@, ability),
                            !.calls = Append(@, <<"block", ability>>),
                            !.chk = None]
    /\ McpFrame

\* pm.check_permission(&provider, &ability)
PmCheck ==
    /\ \E provider \in Providers, ability \in Abilities :
         mcp' = [mcp EXCEPT !.chk =
                   [provider |-> provider, ability |-> ability,
                    res |-> check_permission(mcp.pm, provider, ability)]]
    /\ McpFrame

PermNext == PmGrant \/ PmBlock \/ PmCheck

PermSpec == McpInit /\ [][PermNext]_vars

(* ------------------------------- claims -------------------------------- *)

\* the terminal commands that hold a session with id i detached
InFlight(i) == {p \in Procs : IsSession(held[p]) /\ held[p].id = i}

\* C1: for every session id, at most one terminal command at a time is between
\* its take (close_session) and its put-back (insert_session) or finish with a
\* session of that id.
C1_OneInFlightPerId == \A i \in Ids : Cardinality(InFlight(i)) <= 1

BusyCmds == {"write_terminal", "resize_terminal", "close_terminal", "get_terminal"}

\* q is at its registry step for an id whose session another command holds
\* detached (the map has no entry under that id)
ReachesBusy(q) ==
    /\ pc[q] \in {"take_cs", "get_cs"} /\ cmd[q] \in BusyCmds
    /\ InFlight(arg[q]) \ {q} # {}
    /\ sessions[arg[q]] = None

SuspendPcs == {"op", "op2", "sconn", "sdisc", "sexec", "xloop"}
TerminalCsPcs == {"get_cs", "exists_cs", "create_cs", "mk_cs", "take_cs", "put_cs"}
SshCsPcs == {"sins_cs", "srm_cs", "stake_cs", "sput_cs"}

\* C3: a registry lock is held only during one map step of the holder, never
\* while the holder is inside a suspending session operation.
C3_NoLockAcrossAwait ==
    \A p \in Procs :
       /\ Holds(lock, p) => pc[p] \in TerminalCsPcs
       /\ Holds(clock, p) => pc[p] \in SshCsPcs
       /\ pc[p] \in SuspendPcs => ~Holds(lock, p) /\ ~Holds(clock, p)

C3_Witness ==
    \E p \in Procs, q \in Procs :
       /\ pc[p] \in {"op", "op2"} /\ IsSession(held[p])
       /\ q # p /\ lock.w = q

LockPcs == ReadLockPcs \cup WriteLockPcs \cup SshLockPcs

PutBackPcs == {"put_lock", "put_cs", "sput_lock", "sput_cs", "sins_lock", "sins_cs"}

\* C4: no command waits forever for a registry lock, and a command whose
\* session-level step has returned (it is at its put-back or insert) eventually
\* returns to its caller: no command stays for ever at a wait for a guard, nor
\* between the return of its session-level step and its own return.
C4_NoDeadlock ==
    \A p \in Procs :
       /\ []<>(pc[p] \notin LockPcs)
       /\ []<>(pc[p] \notin PutBackPcs)

C4_Witness ==
    \E p \in Procs, q \in Procs :
       /\ p # q /\ pc[p] \in WriteLockPcs /\ lock.w = q

HasTransport(s) == s.ssh_client # None
HasQueues(s) == s.input_tx # NoHandle /\ s.resize_tx # NoHandle
NoQueues(s) == s.input_tx = NoHandle /\ s.resize_tx = NoHandle

\* connect_terminal has its `result` and is about to put the session back
ConnectReturned(p) == cmd[p] = "connect_terminal" /\ pc[p] = "put_lock"

\* C5: connect returns Ok with the transport and both queues stored and the
\* multiplexer task started, or Err with the session holding no transport and
\* no queues; a session in the registry never has a transport without queues
\* or queues without a transport.
C5_ConnectAtomic ==
    /\ \A p \in Procs :
         ConnectReturned(p) =>
           IF result[p].code = "Ok"
           THEN /\ HasTransport(held[p]) /\ HasQueues(held[p])
                /\ task[held[p].input_tx] # "none"
           ELSE ~HasTransport(held[p]) /\ NoQueues(held[p])
    /\ \A i \in Ids :
         sessions[i] # None =>
           /\ HasTransport(sessions[i]) <=> HasQueues(sessions[i])
           /\ ~HasTransport(sessions[i]) <=> NoQueues(sessions[i])

EventTypes(h) == [i \in 1..Len(events[h]) |-> events[h][i][1]]
CountOf(ty, h) == Cardinality({i \in 1..Len(events[h]) : events[h][i][1] = ty})

\* the stream of connection h is over: its task has ended and connect has returned
StreamOver(h) == task[h] = "end" /\ \A p \in AllProcs : tmp[p] # h

\* C6: the event stream of a connection holds exactly one terminal event and it
\* is the last one: nothing is emitted for the connection after Disconnected,
\* and a stream that is over ends with it.
C6_TerminalEventLast ==
    \A h \in Conns :
       /\ \A i \in 1..Len(events[h]) :
            events[h][i][1] = "Disconnected" => i = Len(events[h])
       /\ StreamOver(h) =>
            /\ events[h] # <<>>
            /\ events[h][Len(events[h])][1] = "Disconnected"

\* C7: whichever way the multiplexer loop ends (Eof or close, both queues
\* dropped, a failed write), it has emitted Disconnected exactly once when it
\* stops.
C7_LoopEndEmitsDisconnected ==
    \A h \in Conns : task[h] = "end" => CountOf("Disconnected", h) = 1

\* C8: one successful connect emits exactly one Connected, before every Data
\* and before the Disconnected of that connection.
C8_ConnectedFirst ==
    \A h \in Conns :
       /\ CountOf("Connected", h) <= 1
       /\ events[h] # <<>> => events[h][1][1] = "Connected"
       /\ (\E s \in SessionObjects : s.input_tx = h) => CountOf("Connected", h) = 1

\* C9: when a resize's window-change message is sent, every input chunk that
\* was enqueued before that resize has been written to the channel.
C9_InputBeforeResize ==
    \A h \in Conns :
       \A i \in 1..Len(wire[h]) :
          wire[h][i][1] = "window_change" =>
            /\ \A j \in 1..Len(inputQ[h]) : inputQ[h][j] > wire[h][i][2]
            /\ \A j \in 1..Len(wire[h]) :
                 (wire[h][j][1] = "data" /\ wire[h][j][2] < wire[h][i][2]) => j < i

\* C10: a second disconnect on the same session, whatever the first returned,
\* changes no session state, does no I/O and returns Ok.
C10_DisconnectIdempotent ==
    [][(SessDisconnect(Caller) /\ prev = "disconnect")
         => /\ held'[Caller] = held[Caller]
            /\ result'[Caller].code = "Ok"
            /\ UNCHANGED connVars]_vars

C10_Witness ==
    /\ pc[Caller] = "api" /\ cmd[Caller] = "disconnect" /\ prev = "disconnect"
    /\ result[Caller].code = "Ok"
    /\ \E h \in Conns : transport[h] = "down"

\* no multiplexer loop is running for session s: it never connected, it was
\* disconnected, or the task of its connection has ended
LoopDown(s) == s.input_tx = NoHandle \/ task[s.input_tx] # "run"

\* C11: write on a session whose multiplexer loop is not running can always
\* complete (it does not wait for the dead loop), and when it completes it
\* returns an error and has put nothing in a queue.
C11_WriteFailsWhenLoopDown ==
    /\ [](\A p \in AllProcs :
            (pc[p] = "op" /\ OpKind(p) = "write" /\ LoopDown(held[p]))
              => ENABLED SessWrite(p))
    /\ [][\A p \in AllProcs :
            (SessWrite(p) /\ LoopDown(held[p]))
              => /\ result'[p].code = "Ssh"
                 /\ UNCHANGED connVars]_vars

C11_Witness ==
    /\ pc[Caller] = "api" /\ cmd[Caller] = "write" /\ result[Caller].code = "Ssh"
    /\ held[Caller].input_tx # NoHandle
    /\ task[held[Caller].input_tx] = "end"

\* C12: resize on a session with no running multiplexer (never connected or
\* already disconnected) fails with a not-connected error.
C12_ResizeFailsWhenUnconnected ==
    \A p \in AllProcs :
       (pc[p] = AfterOp(p) /\ OpKind(p) = "resize" /\ IsSession(held[p])
          /\ held[p].resize_tx = NoHandle /\ result[p].code # "none")
         => result[p].code \notin {"Ok"}

\* the server answered the authentication request of p's last connect with a
\* rejection
AuthRejected(p) ==
    attempt[p].net = "ok" /\ attempt[p].method # "agent" /\ attempt[p].auth = "rejected"

\* C13: when the server rejects the credentials, connect fails with
\* AuthenticationFailed after that one attempt, and the terminal session whose
\* connect hit the failure holds no transport and no queues and reports
\* connected = false.
C13_AuthRejectedLeavesUnconnected ==
    \A p \in AllProcs :
       (pc[p] = AfterOp(p) /\ OpKind(p) = "connect" /\ IsSession(held[p])
          /\ AuthRejected(p))
         => /\ client_connect(attempt[p]) = "AuthenticationFailed"
            /\ result[p] = RetCause("ConnectionFailed", "AuthenticationFailed")
            /\ ~HasTransport(held[p]) /\ NoQueues(held[p])
            /\ ~info(held[p]).connected

\* C14: SshClient::connect returns Timeout exactly when the handshake did not
\* complete within the timeout and ConnectionFailed exactly when the handshake
\* or the network failed before it; in both cases the connection handle is
\* left as it was (absent on a client that was not connected).
C14_TimeoutVsConnectionFailed ==
    [][\A p \in AllProcs :
         ClientConnect(p)
           => /\ attempt'[p].net = "timeout" <=> result'[p].code = "Timeout"
              /\ attempt'[p].net = "error" <=> result'[p].code = "ConnectionFailed"
              /\ attempt'[p].net # "ok" => held'[p].session = held[p].session]_vars

C14_Witness ==
    /\ pc[Caller] = "capi" /\ cmd[Caller] = "connect"
    /\ attempt[Caller].net = "timeout" /\ result[Caller].code = "Timeout"
    /\ IsClient(held[Caller]) /\ ~is_connected(held[Caller])

ExecCmds == {"execute", "ssh_send_command"}

\* C15: execute resolves when the first of ExitStatus or Eof/close arrives (it
\* is not in its loop any more once an ExitStatus was received), and the exit
\* code it reports is the first ExitStatus value, or 0 when Eof/close arrived
\* with no ExitStatus before it.
C15_FirstStatusDecides ==
    \A p \in AllProcs :
       /\ pc[p] = "xloop" => xch[p].status = <<>>
       /\ (cmd[p] \in ExecCmds /\ pc[p] = AfterClientOp(p) /\ result[p].code = "Ok")
            => result[p].val.exit_code =
                 IF xch[p].status = <<>> THEN 0 ELSE xch[p].status[1]

\* C16: SshClient::disconnect leaves the client without a connection handle
\* whatever the close returned, and a connect on the same object after it,
\* with a reachable server that accepts the credentials, makes the client
\* connected again.
C16_DisconnectClearsHandle ==
    [][\A p \in AllProcs :
         /\ SshDisconnect(p) => (IsClient(held'[p]) => ~is_connected(held'[p]))
         /\ (ClientConnect(p) /\ prev = "disconnect" /\ attempt'[p] \in OkEnvs)
              => /\ result'[p].code = "Ok"
                 /\ is_connected(held'[p])
                 /\ transport'[held'[p].session] = "up"]_vars

C16_Witness ==
    /\ pc[Caller] = "capi" /\ cmd[Caller] = "connect" /\ prev = "disconnect"
    /\ result[Caller].code = "Ok"
    /\ IsClient(held[Caller]) /\ is_connected(held[Caller])
    /\ \E h \in Conns : transport[h] = "down"

\* the sessions no method is running on: those in the registry and those a
\* caller or command holds between two method calls
SessionsAtRest ==
    {sessions[i] : i \in {j \in Ids : sessions[j] # None}}
      \cup {held[p] : p \in {q \in AllProcs : IsSession(held[q])
                                               /\ pc[q] \in {"api", "put_lock"}}}

\* the connections session s refers to: through its client or through a queue
ConnsOf(s) ==
    {h \in Conns : \/ s.input_tx = h \/ s.resize_tx = h
                   \/ (s.ssh_client # None /\ s.ssh_client.session = h)}

\* C17: the input and resize queues of a session are present if and only if
\* the multiplexer task spawned for its current connection is alive.
C17_QueuesIffTaskAlive ==
    \A s \in SessionsAtRest :
       HasQueues(s) <=> (\E h \in ConnsOf(s) : task[h] = "run")

\* C18: once the multiplexer loop of a connection has ended, the session in
\* the registry holds no transport and no queue of that connection, and the
\* snapshot get_terminal returns for it does not report connected = true on
\* the strength of that connection.
C18_DeadLoopIsDegraded ==
    \A i \in Ids, h \in Conns :
       (sessions[i] # None /\ task[h] = "end")
         => /\ h \notin ConnsOf(sessions[i])
            /\ get_session(sessions, i).connected
                 => sessions[i].ssh_client.session # h

\* every Sender of both queues of connection h has been dropped
QueuesDropped(h) == ~InputSenderAlive(h) /\ ~ResizeSenderAlive(h)

\* C19: once the input queue and the resize queue of a running multiplexer
\* loop have both been dropped by the session, the loop eventually terminates,
\* also when the remote sends nothing more and never closes the channel.
C19_QueueDropEndsLoop ==
    \A h \in Conns : (task[h] = "run" /\ QueuesDropped(h)) ~> task[h] = "end"

\* the commands that detach an object from a registry to operate on it
DetachCmds == {"connect_terminal", "write_terminal", "resize_terminal",
               "ssh_send_command"}

\* the registry entry under the id of command p, after the step
EntryAfter(p) ==
    IF cmd[p] = "ssh_send_command" THEN clients'[arg[p]] ELSE sessions'[arg[p]]

\* C20: a command that has detached a session (or client) returns only with
\* that same object reinserted under its id, whether the operation returned Ok
\* or Err, and no step of the command changes the entry of another id.
C20_PutBackSameObject ==
    [][\A p \in Procs :
         (cmd[p] \in DetachCmds /\ pc[p] # "idle" /\ pc'[p] # pc[p])
           => /\ \A j \in Ids \ {arg[p]} :
                   sessions'[j] = sessions[j] /\ clients'[j] = clients[j]
              /\ (pc'[p] = "idle" /\ held[p] # None)
                   => EntryAfter(p) = held[p] /\ held'[p] = None
              /\ pc[p] \in {"op", "op2", "sexec", "xloop"} => pc'[p] # "idle"]_vars

C20_Witness ==
    \E p \in Procs :
       /\ pc[p] = "idle" /\ cmd[p] = "connect_terminal"
       /\ result[p].code = "ConnectionFailed" /\ result[p].val # None
       /\ sessions[arg[p]] # None /\ held[p] = None

\* C21: close_terminal on an id present in the registry removes the session
\* and disconnects it, and no step of the command stores a session under the
\* id again, also when the disconnect returns an error; on an absent id it
\* returns SessionNotFound and leaves the registry unchanged.
C21_CloseRemoves ==
    [][\A p \in Procs :
         (cmd[p] = "close_terminal" /\ pc[p] # "idle" /\ pc'[p] # pc[p])
           => /\ TakeCs(p) =>
                   IF sessions[arg[p]] # None
                   THEN /\ sessions' = [sessions EXCEPT ![arg[p]] = None]
                        /\ held'[p] = sessions[arg[p]] /\ pc'[p] = "op"
                   ELSE /\ result'[p].code = "SessionNotFound" /\ pc'[p] = "idle"
                        /\ UNCHANGED <<sessions, connVars>>
              /\ SessDisconnect(p) =>
                   /\ UNCHANGED sessions
                   /\ pc'[p] = "idle" /\ held'[p] = None
                   /\ result'[p].code \in {"Ok", "Ssh"}
                   /\ HasTransport(held[p]) /\ is_connected(held[p].ssh_client)
                        => transport'[held[p].ssh_client.session] = "down"
              /\ sessions'[arg[p]] # None => UNCHANGED sessions]_vars

C21_Witness ==
    \E p \in Procs :
       /\ pc[p] = "idle" /\ cmd[p] = "close_terminal" /\ result[p].code = "Ssh"
       /\ sessions[arg[p]] = None /\ held[p] = None
       /\ \E h \in Conns : transport[h] = "down"

\* C22: decrypting what encrypt produced returns the original plaintext
\* whenever the decrypting instance was built from the same key material as
\* the encrypting one (the same raw key, or the same password and salt).
C22_RoundTrip ==
    (ds.dec # None /\ ds.crypto[ds.dec.by].from = ds.crypto[1].from)
      => ds.dec.res = [ok |-> TRUE, val |-> ds.pt]

C22_Witness ==
    /\ ds.dec # None /\ ds.dec.by = 2
    /\ ds.crypto[2].from = ds.crypto[1].from
    /\ ds.crypto[1].from \in [password : Passwords, salt : Salts]
    /\ Len(ds.pt) = MaxPlain /\ ds.dec.res.ok
    /\ ds.enc.nonce # B64Encode(Const(NonceLen, 0))

IsData(x) == x[1] = "data"
RECURSIVE Stamps(_)
Stamps(s) == IF s = <<>> THEN <<>> ELSE <<Head(s)[2]>> \o Stamps(Tail(s))
\* the input chunks of a connection in the order they reach the remote: those
\* written to the channel, then those waiting in the queue
InputTrace(w, q) == Stamps(SelectSeq(w, IsData)) \o q

RemoteDataKinds == {"Data", "ExtendedData1"}

\* C24: while the loop is alive, every remote Data and ExtendedData message it
\* reads yields exactly one outward Data event carrying the same payload,
\* appended in the order the messages arrived.
C24_DataEventsMirrorRemote ==
    [][\A h \in Conns :
         (/\ task[h] = "run" /\ task'[h] = "run"
          /\ chanIn[h] # <<>> /\ chanIn'[h] = Tail(chanIn[h])
          /\ Head(chanIn[h])[1] \in RemoteDataKinds)
           => events'[h] = Append(events[h], <<"Data", Head(chanIn[h])[2],
                                              Head(chanIn[h])[3]>>)]_vars

\* write_terminal q waits in tx.send for room in the full input queue of
\* connection h, whose remote has stopped responding
BlockedWrite(q, h) ==
    /\ cmd[q] = "write_terminal" /\ pc[q] = "op"
    /\ IsSession(held[q]) /\ held[q].input_tx = h
    /\ task[h] = "run" /\ Stalled(h) /\ Len(inputQ[h]) = InputCap

\* C25: a close_terminal issued for a session whose remote has stopped
\* responding, while a write to that session waits on the full input queue,
\* is followed by the end of the session's multiplexer loop.
C25_CloseEndsStalledLoop ==
    \A h \in Conns :
       []((\E p, q \in Procs :
              /\ cmd[p] = "close_terminal" /\ pc[p] = "take_lock"
              /\ BlockedWrite(q, h) /\ arg[p] = held[q].id)
          => <>(task[h] = "end"))

\* C26: when a channel open or exec request of execute fails on a connected
\* client, the client is unconnected afterwards: its handle is absent and
\* is_connected returns false.
C26_IoFailureClearsHandle ==
    [][(/\ pc[Caller] = "sexec" /\ is_connected(held[Caller])
        /\ pc'[Caller] # "sexec" /\ result'[Caller].code = "Russh")
         => ~is_connected(held'[Caller])]_vars

\* C27: when TerminalSession::connect returns the error of open_shell, the
\* transport it had established is no longer up: the failing connect leaves no
\* connected transport behind.
C27_FailedConnectReleasesTransport ==
    [][(/\ pc[Caller] = "op" /\ OpKind(Caller) = "connect"
        /\ pc'[Caller] = AfterOp(Caller) /\ result'[Caller].code = "Ssh")
         => \A h \in Conns : transport[h] = "none" => transport'[h] # "up"]_vars

\* C28: a connect whose handshake or authentication exchange never completes
\* returns Timeout: whenever connect is running it returns, and when it waits
\* for an authentication answer that never comes it returns Timeout.
C28_ConnectBounded ==
    /\ [](pc[Caller] \in {"cconn", "cauth"} => <>(pc[Caller] = "capi"))
    /\ [](pc[Caller] = "cauth"
           => <>(pc[Caller] = "capi" /\ result[Caller].code = "Timeout"))

\* the connection state of a session as its fields show it
ConnState(s) == IF info(s).connected THEN "Connected" ELSE "Unconnected"

\* C29: a session that is Connected does not enter Connecting or Connected
\* again without a disconnect in between: the body of connect runs only on a
\* session that is not Connected.
C29_NoConnectWhileConnected ==
    [][(/\ pc[Caller] = "op" /\ OpKind(Caller) = "connect"
        /\ pc'[Caller] # "op")
         => ConnState(held[Caller]) # "Connected"]_vars

\* C30: the CommandOutput execute returns holds as stdout the in-order
\* concatenation of all Data payloads received and as stderr that of all
\* ExtendedData payloads with stream tag 1, and execute returns no output
\* while its loop is still receiving.
C30_OutputIsWhatWasReceived ==
    \A p \in AllProcs :
       /\ (cmd[p] \in ExecCmds /\ pc[p] = "xloop") => result[p].code = "none"
       /\ (cmd[p] \in ExecCmds /\ pc[p] # "xloop" /\ result[p].code = "Ok")
            => /\ result[p].val.stdout = xch[p].stdout
               /\ result[p].val.stderr = xch[p].stderr

\* a step of a running measure_latency
ProbeStep ==
    /\ cmd[Caller] = "measure_latency" /\ pc[Caller] \in {"probe", "xloop", "lat"}
    /\ <<pc[Caller], xch[Caller], result[Caller]>>
         # <<pc'[Caller], xch'[Caller], result'[Caller]>>

\* C31: measure_latency never writes to, resizes or reads from the session's
\* shell channel: each of its steps leaves the channel's queues, the messages
\* waiting on it, what was written to it, the events emitted from it, its
\* loop and the session itself as they were.
C31_ProbeLeavesShellAlone ==
    [][ProbeStep => UNCHANGED <<inputQ, resizeQ, chanIn, wire, events, task, enq,
                                closed, transport, held>>]_vars

C31_Witness ==
    /\ cmd[Caller] = "measure_latency" /\ pc[Caller] = "api"
    /\ result[Caller].code = "Ok" /\ "latency" \in DOMAIN result[Caller].val
    /\ xch[Caller].n > 0
    /\ \E h \in Conns :
         /\ held[Caller].input_tx = h /\ task[h] = "run"
         /\ wire[h] # <<>> /\ Len(events[h]) >= 2

\* the server answers a password or key with a rejection
RejectedEnvs == {e \in ConnectEnvs : e.net = "ok" /\ e.method # "agent" /\ e.auth = "rejected"}

\* C32: a connect whose auth method is Agent establishes no transport and
\* returns an error that differs from the one returned when the server
\* rejects the credentials.
C32_AgentIsUnsupported ==
    [][(ClientConnect(Caller) /\ attempt'[Caller].method = "agent"
          /\ attempt'[Caller].net = "ok")
         => /\ UNCHANGED <<held, transport>>
            /\ result'[Caller].code # "Ok"
            /\ \A e \in RejectedEnvs : result'[Caller].code # client_connect(e)]_vars

\* the TerminalSession objects with id i: the map's entry and the detached ones
ObjectsOf(i) == Cardinality(InFlight(i)) + (IF sessions[i] # None THEN 1 ELSE 0)

\* C33: at most one TerminalSession object with a given id exists at any time,
\* in the map or detached in a command, so a put-back finds no other session
\* stored under its id.
C33_OneObjectPerId == \A i \in Ids : ObjectsOf(i) <= 1

\* the commands other than ssh disconnect that hold a client with id i detached
ClientHolders(i) ==
    {q \in Procs : IsClient(held[q]) /\ held[q].id = i /\ cmd[q] # "ssh_disconnect"}

\* C34: after ssh disconnect(id) has returned Ok, the registry has no client
\* under that id and no client with that id is left connected in the hands of
\* a concurrent send_command.
C34_DisconnectIsFinal ==
    \A p \in Procs :
       (pc[p] = "idle" /\ cmd[p] = "ssh_disconnect" /\ result[p].code = "Ok")
         => /\ clients[arg[p]] = None
            /\ \A q \in ClientHolders(arg[p]) : ~is_connected(held[q])

\* C35: when connect returns Ok on a session that was already connected, the
\* multiplexer loop of the previous connection is no longer running and the
\* previous transport is no longer up: one live loop per session id.
C35_ReconnectReplacesLoop ==
    [][(/\ pc[Caller] = "op2" /\ pc'[Caller] # "op2"
        /\ held[Caller].input_tx # NoHandle)
         => /\ task'[held[Caller].input_tx] # "run"
            /\ transport'[held[Caller].input_tx] # "up"]_vars

\* the exit statuses the server sent on the Exec channel of p before closing it
StatusesSent(p) == xch[p].status \o xch[p].late

\* C36: when the server sent an ExitStatus on the Exec channel before closing
\* it, the exit_code execute reports is a status the server sent, whether the
\* ExitStatus came before or after the Eof.
C36_ExitStatusReported ==
    \A p \in AllProcs :
       (cmd[p] \in ExecCmds /\ pc[p] # "xloop" /\ result[p].code = "Ok"
          /\ StatusesSent(p) # <<>>)
         => \E k \in DOMAIN StatusesSent(p) :
               result[p].val.exit_code = StatusesSent(p)[k]

\* C37: every client stored in the ssh registry has its connection handle
\* present, under any interleaving of ssh connect, send_command and
\* disconnect; a client whose connect failed is not inserted.
C37_RegistryHoldsConnected ==
    /\ \A i \in Ids : clients[i] # None => is_connected(clients[i])
    /\ \A p \in Procs :
         (cmd[p] = "ssh_connect" /\ pc[p] = "idle" /\ result[p].code # "Ok")
           => clients[arg[p]] = None

C37_Witness ==
    /\ \E p \in Procs :
         /\ cmd[p] = "ssh_connect" /\ pc[p] = "idle"
         /\ result[p].code \notin {"Ok", "none"}
    /\ \E q \in Procs :
         /\ cmd[q] = "ssh_send_command" /\ pc[q] = "idle" /\ result[q].code = "Ok"
         /\ clients[arg[q]] # None /\ is_connected(clients[arg[q]])

\* the step is one call of process_request
ProcessStep == mcp.server # None /\ mcp'.nreq = mcp.nreq + 1

\* C38: process_request hands the request to execute_ability exactly when its
\* provider is in allowed_providers and check_permission returned Allowed, or
\* RequiresApproval with require_approval false; otherwise nothing is
\* executed; a request that needs approval adds exactly one entry, its own, to
\* pending_approvals and every other request leaves them as they were.
C38_ExecutesOnlyWhenPermitted ==
    [][ProcessStep =>
         LET server == mcp.server
             request == mcp'.req
             permission == check_permission(server.permissions, request.provider,
                                            request.ability)
             known == request.provider \in server.config.allowed_providers
             runs == known /\ (permission = "Allowed"
                                \/ (permission = "RequiresApproval"
                                      /\ ~server.config.require_approval))
             waits == known /\ permission = "RequiresApproval"
                         /\ server.config.require_approval
             pending == server.pending_approvals
             after == mcp'.server.pending_approvals
         IN  /\ mcp'.executed = (IF runs THEN Append(mcp.executed, request)
                                         ELSE mcp.executed)
             /\ ~runs => mcp'.ret.code \in {"ProviderNotAllowed", "PermissionDenied"}
             /\ IF waits
                THEN /\ Len(after) = Len(pending) + 1
                     /\ SubSeq(after, 1, Len(pending)) = pending
                     /\ after[Len(after)].provider = request.provider
                     /\ after[Len(after)].ability = request.ability
                ELSE after = pending
             /\ mcp'.server.permissions = server.permissions]_vars

C38_Witness ==
    /\ mcp.server # None /\ mcp.nreq = MaxRequests
    /\ mcp.server.config.require_approval
    /\ mcp.server.permissions.auto_approve # {}
    /\ Len(mcp.executed) = 1
    /\ Len(mcp.server.pending_approvals) = 1
    /\ mcp.ret.code = "PermissionDenied"

\* the most recent grant or block call on the ability, "none" if there is none
LastCall(ability) ==
    LET on == {k \in DOMAIN mcp.calls : mcp.calls[k][2] = ability} IN
    IF on = {} THEN "none"
    ELSE mcp.calls[CHOOSE k \in on : \A j \in on : j <= k][1]

\* C39: after any sequence of grant and block calls on a default
\* PermissionManager no ability is in both auto_approve and blocked, and
\* check_permission returns, for every provider, Allowed for an ability whose
\* most recent call was grant and Denied for one whose most recent call was
\* block.
C39_LastCallDecides ==
    /\ mcp.pm.auto_approve \cap mcp.pm.blocked = {}
    /\ \A ability \in Abilities, provider \in Providers :
         /\ LastCall(ability) = "grant"
              => check_permission(mcp.pm, provider, ability) = "Allowed"
         /\ LastCall(ability) = "block"
              => check_permission(mcp.pm, provider, ability) = "Denied"
    /\ mcp.chk # None =>
         /\ LastCall(mcp.chk.ability) = "grant" => mcp.chk.res = "Allowed"
         /\ LastCall(mcp.chk.ability) = "block" => mcp.chk.res = "Denied"

C39_Witness ==
    /\ mcp.chk # None /\ mcp.chk.res = "Allowed"
    /\ \E k \in DOMAIN mcp.calls :
         /\ mcp.calls[k] = <<"block", mcp.chk.ability>>
         /\ k < Len(mcp.calls)
    /\ LastCall(mcp.chk.ability) = "grant"
    /\ \E ability \in Abilities : LastCall(ability) = "block"

====
